---------------------------- MODULE Spec2Model ----------------------------
(***************************************************************************)
(* State machine of the OpenID Connect relying-party strategy:            *)
(* the session state store (store / verify), Strategy.authenticate with   *)
(* its authorization leg and callback leg, the ID-token checks and the    *)
(* dispatch to the application's verify function.                         *)
(*                                                                         *)
(* JavaScript values are tagged records [t, v] so that truthiness and     *)
(* strict equality are computed as the code computes them.  Objects       *)
(* (the session, session[key], the stored state record) are functions     *)
(* whose DOMAIN is the set of own keys.                                    *)
(***************************************************************************)
EXTENDS Integers, Sequences, FiniteSets, TLC

\* ------------------------------------------------------------------------
\* Bounds of the model.
MaxAttempts == 2          \* authenticate() calls (requests) in one behaviour
MaxTicks == 1             \* advances of the wall clock

\* Program constants.
MsPerSec == 1000          \* Date.now() / 1000, maxAge * 1000, auth_time * 1000
ForbiddenStatus == 403    \* status of the soft failures of the state / token checks

\* The modelled clock: Date.now() starts at two seconds and advances by half
\* a second per tick.
TickMs == MsPerSec \div 2
StartMs == 2 * MsPerSec

\* ------------------------------------------------------------------------
\* JavaScript values.
Undef == [t |-> "undefined", v |-> 0]
Str(s) == [t |-> "string", v |-> s]
Num(n) == [t |-> "number", v |-> n]
Bool(b) == [t |-> "boolean", v |-> b]
Arr(q) == [t |-> "array", v |-> q]
Fn(name) == [t |-> "function", v |-> name]
Null == [t |-> "null", v |-> 0]
\* A string whose characters matter: the sequence of its pieces, each a
\* space or a run of other characters (adjacent runs form one word).
Chars(q) == [t |-> "chars", v |-> q]
\* A Date object, and the ISO string a JSON-serialised session holds instead.
DateOf(ms) == [t |-> "Date", v |-> ms]
IsoString(ms) == [t |-> "isostring", v |-> ms]

\* typeof x
TypeOf(x) ==
    CASE x.t \in {"isostring", "chars"} -> "string"
      [] x.t \in {"array", "Date", "null"} -> "object"
      [] OTHER -> x.t

\* ToBoolean: undefined, "", 0 and false are falsy; objects and arrays are truthy.
Truthy(x) ==
    CASE x.t \in {"undefined", "null"} -> FALSE
      [] x.t = "string" -> x.v # ""
      [] x.t = "chars" -> x.v # <<>>
      [] x.t = "number" -> x.v # 0
      [] x.t = "boolean" -> x.v
      [] OTHER -> TRUE

\* The === operator on primitives (same type and same value).
StrictEq(a, b) == a.t = b.t /\ a.v = b.v

\* Objects: functions over their own keys.
EmptyObj == [k \in {} |-> Undef]
Has(o, k) == k \in DOMAIN o
Put(o, k, x) == [j \in (DOMAIN o) \cup {k} |-> IF j = k THEN x ELSE o[j]]
Del(o, k) == [j \in (DOMAIN o) \ {k} |-> o[j]]
\* o.k : undefined when k is no own key
Get(o, k) == IF k \in DOMAIN o THEN o[k] ELSE Undef

\* utils.uid(n), crypto.pseudoRandomBytes: the i-th value drawn in a behaviour.
\* Every draw is a value never drawn before.
UidNames == <<"u1", "u2", "u3", "u4", "u5", "u6", "u7", "u8", "u9", "u10",
              "u11", "u12", "u13", "u14", "u15", "u16", "u17", "u18">>
uid(i) == Str(UidNames[i])

\* Errors: the constructor name and the message.  NoErr is null.
Err(class, message) == [class |-> class, message |-> message]
NoErr == Err("null", "")
IsErr(e) == e.class # "null"

\* Calling f(...) where f is not a function throws a TypeError.
NotAFunction(name) == Err("TypeError", name \o " is not a function")

\* Binding of call arguments to declared parameters: a parameter past the
\* last argument is undefined.
Bind(params, args, p) ==
    LET i == CHOOSE j \in 1..Len(params) : params[j] = p
    IN IF i <= Len(args) THEN args[i] ELSE Undef

\* ------------------------------------------------------------------------
\* SessionStore (lib/state/session.js)

\* (the message continues with a hint about the express-session middleware)
NoSessionError == Err("Error", "OpenID Connect requires session support.")

UnableToVerify == Str("Unable to verify authorization request state.")
InvalidState == Str("Invalid authorization request state.")

\* Declared parameters of SessionStore.prototype.store.
StoreParams == <<"req", "ctx", "appState", "meta", "cb">>

\* What a call of store / verify has done when it returns: the session
\* object afterwards, the exception it threw (NoErr when it returned), and
\* the arguments its callback was called with (called = FALSE when it was
\* not called).
StoreReturn(sess, threw, called, err, handle) ==
    [sess |-> sess, threw |-> threw, called |-> called, err |-> err, handle |-> handle]

\* cb(err, handle) as the last statement of store.
StoreCallCb(cb, sess, err, handle) ==
    IF cb.t = "function"
    THEN StoreReturn(sess, NoErr, TRUE, err, handle)
    ELSE StoreReturn(sess, NotAFunction("cb"), FALSE, NoErr, Undef)

\* - the time of the request is not recorded:
StoreState_noIssued(ctx, appState, handle) ==
    LET s0 == [k \in {"handle"} |-> handle]
        s1 == IF Truthy(Get(ctx, "maxAge")) THEN Put(s0, "maxAge", ctx["maxAge"]) ELSE s0
        s2 == IF Truthy(Get(ctx, "nonce")) THEN Put(s1, "nonce", ctx["nonce"]) ELSE s1
        s4 == IF Truthy(Get(ctx, "verifier")) THEN Put(s2, "verifier", ctx["verifier"]) ELSE s2
    IN IF Truthy(appState) THEN Put(s4, "state", appState) ELSE s4
\* The state record store builds from ctx and appState.
StoreState(ctx, appState, handle) ==
    LET s0 == [k \in {"handle"} |-> handle]
        s1 == IF Truthy(Get(ctx, "maxAge")) THEN Put(s0, "maxAge", ctx["maxAge"]) ELSE s0
        s2 == IF Truthy(Get(ctx, "nonce")) THEN Put(s1, "nonce", ctx["nonce"]) ELSE s1
        s3 == IF Truthy(Get(ctx, "issued")) THEN Put(s2, "issued", ctx["issued"]) ELSE s2
        s4 == IF Truthy(Get(ctx, "verifier")) THEN Put(s3, "verifier", ctx["verifier"]) ELSE s3
    IN IF Truthy(appState) THEN Put(s4, "state", appState) ELSE s4

\* A store that replaces session[key] by a fresh object holding only the
\* state, used to show that the frame property reads the store.
SessionStore_store_overwrites(hasSession, sess, key, ctx, appState, meta, cb, handle) ==
    IF ~hasSession
    THEN StoreCallCb(cb, sess, NoSessionError, Undef)
    ELSE StoreCallCb(cb, Put(sess, key, [k \in {"state"} |-> StoreState(ctx, appState, handle)]),
                     NoErr, handle)

\* SessionStore.prototype.store(req, ctx, appState, meta, cb); handle is the
\* value utils.uid(24) yields in this call, key is this._key.
SessionStore_store(hasSession, sess, key, ctx, appState, meta, cb, handle) ==
    IF ~hasSession
    THEN StoreCallCb(cb, sess, NoSessionError, Undef)
    ELSE LET entry == IF Has(sess, key) THEN sess[key] ELSE EmptyObj
             written == Put(sess, key, Put(entry, "state", StoreState(ctx, appState, handle)))
         IN StoreCallCb(cb, written, NoErr, handle)

\* What verify hands to its callback: cb(err, ctx, state).
\* ok = FALSE stands for ctx = false (ctx is then left empty).
VerifyReturn(sess, err, ok, ctx, state) ==
    [sess |-> sess, err |-> err, ok |-> ok, ctx |-> ctx, state |-> state]

\* The SessionContext verify rebuilds from a stored state record.
VerifyCtx(state) ==
    LET issued == Get(state, "issued")
        c0 == [k \in {"maxAge", "nonce", "issued"} |->
                 CASE k = "maxAge" -> Get(state, "maxAge")
                   [] k = "nonce" -> Get(state, "nonce")
                   [] OTHER -> IF TypeOf(issued) = "string" THEN DateOf(issued.v) ELSE issued]
    IN IF Truthy(Get(state, "verifier")) THEN Put(c0, "verifier", state["verifier"]) ELSE c0

\* Variants of verify, used to show that the properties of the state store
\* read the statements they are about.
\* - the state is deleted on a mismatch only, a matching state stays:
SessionStore_verify_keeps(hasSession, sess, key, reqState) ==
    IF ~hasSession THEN VerifyReturn(sess, NoSessionError, FALSE, EmptyObj, Undef)
    ELSE IF ~Has(sess, key) THEN VerifyReturn(sess, NoErr, FALSE, EmptyObj, UnableToVerify)
    ELSE IF ~Has(sess[key], "state") THEN VerifyReturn(sess, NoErr, FALSE, EmptyObj, UnableToVerify)
    ELSE LET state == sess[key]["state"]
             removed == Del(sess[key], "state")
             after == IF DOMAIN removed = {} THEN Del(sess, key) ELSE Put(sess, key, removed)
         IN IF ~StrictEq(state["handle"], reqState)
            THEN VerifyReturn(after, NoErr, FALSE, EmptyObj, InvalidState)
            ELSE VerifyReturn(sess, NoErr, TRUE, VerifyCtx(state), Get(state, "state"))
\* - the handle is compared before the state is deleted:
SessionStore_verify_compareFirst(hasSession, sess, key, reqState) ==
    IF ~hasSession THEN VerifyReturn(sess, NoSessionError, FALSE, EmptyObj, Undef)
    ELSE IF ~Has(sess, key) THEN VerifyReturn(sess, NoErr, FALSE, EmptyObj, UnableToVerify)
    ELSE IF ~Has(sess[key], "state") THEN VerifyReturn(sess, NoErr, FALSE, EmptyObj, UnableToVerify)
    ELSE LET state == sess[key]["state"]
             removed == Del(sess[key], "state")
             after == IF DOMAIN removed = {} THEN Del(sess, key) ELSE Put(sess, key, removed)
         IN IF ~StrictEq(state["handle"], reqState)
            THEN VerifyReturn(sess, NoErr, FALSE, EmptyObj, InvalidState)
            ELSE VerifyReturn(after, NoErr, TRUE, VerifyCtx(state), Get(state, "state"))
\* - an empty session[key] is cleaned up when no state is found:
SessionStore_verify_dropsEmpty(hasSession, sess, key, reqState) ==
    IF ~hasSession THEN VerifyReturn(sess, NoSessionError, FALSE, EmptyObj, Undef)
    ELSE IF ~Has(sess, key) THEN VerifyReturn(sess, NoErr, FALSE, EmptyObj, UnableToVerify)
    ELSE IF ~Has(sess[key], "state")
    THEN VerifyReturn(IF DOMAIN sess[key] = {} THEN Del(sess, key) ELSE sess,
                      NoErr, FALSE, EmptyObj, UnableToVerify)
    ELSE LET state == sess[key]["state"]
             removed == Del(sess[key], "state")
             after == IF DOMAIN removed = {} THEN Del(sess, key) ELSE Put(sess, key, removed)
         IN IF ~StrictEq(state["handle"], reqState)
            THEN VerifyReturn(after, NoErr, FALSE, EmptyObj, InvalidState)
            ELSE VerifyReturn(after, NoErr, TRUE, VerifyCtx(state), Get(state, "state"))
\* - a missing session is reported like a missing state:
SessionStore_verify_softNoSession(hasSession, sess, key, reqState) ==
    IF ~hasSession THEN VerifyReturn(sess, NoErr, FALSE, EmptyObj, UnableToVerify)
    ELSE IF ~Has(sess, key) THEN VerifyReturn(sess, NoErr, FALSE, EmptyObj, UnableToVerify)
    ELSE IF ~Has(sess[key], "state") THEN VerifyReturn(sess, NoErr, FALSE, EmptyObj, UnableToVerify)
    ELSE LET state == sess[key]["state"]
             removed == Del(sess[key], "state")
             after == IF DOMAIN removed = {} THEN Del(sess, key) ELSE Put(sess, key, removed)
         IN IF ~StrictEq(state["handle"], reqState)
            THEN VerifyReturn(after, NoErr, FALSE, EmptyObj, InvalidState)
            ELSE VerifyReturn(after, NoErr, TRUE, VerifyCtx(state), Get(state, "state"))

\* SessionStore.prototype.verify(req, reqState, cb).
SessionStore_verify(hasSession, sess, key, reqState) ==
    IF ~hasSession THEN VerifyReturn(sess, NoSessionError, FALSE, EmptyObj, Undef)
    ELSE IF ~Has(sess, key) THEN VerifyReturn(sess, NoErr, FALSE, EmptyObj, UnableToVerify)
    ELSE IF ~Has(sess[key], "state") THEN VerifyReturn(sess, NoErr, FALSE, EmptyObj, UnableToVerify)
    ELSE LET state == sess[key]["state"]
             removed == Del(sess[key], "state")
             after == IF DOMAIN removed = {} THEN Del(sess, key) ELSE Put(sess, key, removed)
         IN IF ~StrictEq(state["handle"], reqState)
            THEN VerifyReturn(after, NoErr, FALSE, EmptyObj, InvalidState)
            ELSE VerifyReturn(after, NoErr, TRUE, VerifyCtx(state), Get(state, "state"))

\* ------------------------------------------------------------------------
\* Strategy (lib/strategy.js): configuration and state

Issuer == Str("https://op.example")
ClientId == Str("abc")
\* this.name + ":" + hostname of the authorization endpoint
SessionKey == "openidconnect:op.example"

\* A configuration: the options the Strategy constructor copies (lines
\* 327-364).
Config(pkce, nonce, maxAge, skipUserProfile) ==
    [issuer |-> Issuer, clientID |-> ClientId, scope |-> Undef, pkce |-> pkce, nonce |-> nonce,
     maxAge |-> maxAge, skipUserProfile |-> skipUserProfile]

\* The configurations a Strategy is constructed with: every PKCE mode
\* (none, S256, plain, an unsupported one), nonce mode off and on, max_age
\* unset and set, skipUserProfile true and false; every combination of nonce
\* mode and max_age occurs with a PKCE mode that reaches the state store.
Configs ==
    { Config(Undef, Undef, Undef, Bool(TRUE)),
      Config(Undef, Bool(TRUE), Undef, Bool(FALSE)),
      Config(Str("S256"), Bool(TRUE), Num(1), Bool(FALSE)),
      Config(Str("plain"), Undef, Num(1), Bool(TRUE)),
      Config(Str("S512"), Bool(TRUE), Undef, Bool(FALSE)) }

\* What the application keeps in the session besides the strategy's state:
\* a top-level key of its own and keys of its own under the session key.
AppSessions ==
    { EmptyObj,
      [k \in {SessionKey} |-> EmptyObj],
      [k \in {"cart", SessionKey} |->
          IF k = "cart" THEN Str("c1") ELSE [j \in {"returnTo"} |-> Str("/welcome")]] }

\* options.state values an application passes to authenticate.
AppStates == {Undef, Str("app"), Num(0)}

Attempts == 1..MaxAttempts

VARIABLES
    cfg,        \* the Strategy's configuration (this._issuer, this._pkce, ...)
    hasSession, \* whether the application has session support (req.session exists)
    session,    \* req.session, the session object the requests share
    now,        \* Date.now()
    nextUid,    \* number of random values drawn so far, plus one
    issued,     \* history: what the state store has generated so far, each
                \* handle with the appState store was called with
    started,    \* number of authenticate() calls made
    pc,         \* pc[a]: where attempt a is suspended
    req,        \* req[a]: the request and options of attempt a
    ctx,        \* ctx[a]: what restored() was called with (ok, ctx, state)
    tok,        \* tok[a]: history: the checks the ID token of attempt a violates
    out,        \* out[a]: the terminal calls (redirect, fail, error, success) made
    calls,      \* calls[a]: calls made to the token endpoint, _shouldLoadUserProfile,
                \* the userinfo endpoint, verify
    idTokenIn,  \* the validation on its own: the ID token, context and time given
    idTokenOut, \* the validation on its own: what the validation made of them
    given,      \* a handler or a function on its own: the input given to it
    returned    \* a function on its own: what it returned for the input

vars == <<returned, given, idTokenIn, idTokenOut, cfg, hasSession, session, now, nextUid, issued, started, pc, req, ctx, tok, out, calls>>

\* A terminal call of the strategy.
Outcome(kind, class, message, status, data) ==
    [kind |-> kind, class |-> class, message |-> message, status |-> status, data |-> data,
     user |-> Undef]
\* this.error(err)
ErrorOutcome(err) == Outcome("error", err.class, Str(err.message), 0, EmptyObj)
\* this.fail({ message: m }, status); status 0 stands for no status argument
FailOutcome(message, status) == Outcome("fail", "", message, status, EmptyObj)
\* this.redirect(location): data holds the query parameters of the location
RedirectOutcome(params) == Outcome("redirect", "", Undef, 0, params)
\* this.success(user, info)
SuccessOutcome(user, info) == [Outcome("success", "", Undef, 0, info) EXCEPT !.user = user]

\* ------------------------------------------------------------------------
\* Strategy.prototype.authenticate: the authorization leg

\* crypto.createHash("sha256").update(verifier).digest().toString("base64url")
Sha256(verifier) == Str("sha256:" \o verifier.v)

\* The random values one authorization leg draws when n - 1 values have been
\* drawn before, in the order of the code: the nonce (line 905), the PKCE
\* verifier (line 927), the handle (line 69).
NonceDraw(n) == n
VerifierDraw(n) == IF Truthy(cfg.nonce) THEN n + 1 ELSE n
HandleDraw(n) == IF Truthy(cfg.pkce) THEN VerifierDraw(n) + 1 ELSE VerifierDraw(n)

\* String.prototype.split(" "): the words between the spaces of q.
RECURSIVE SplitWords(_, _, _)
SplitWords(q, word, words) ==
    IF q = <<>> THEN Append(words, word)
    ELSE IF Head(q) = " " THEN SplitWords(Tail(q), <<>>, Append(words, word))
    ELSE SplitWords(Tail(q), Append(word, Head(q)), words)
split(q) == SplitWords(q, <<>>, <<>>)
\* Array.prototype.join(" ") of an array of strings.
RECURSIVE join(_)
join(words) ==
    IF words = <<>> THEN <<>>
    ELSE IF Len(words) = 1 THEN words[1]
    ELSE words[1] \o <<" ">> \o join(Tail(words))
\* Array.prototype.includes
includes(arr, x) == \E i \in 1..Len(arr) : arr[i] = x
\* The string "openid".
OpenId == <<"openid">>

\* Lines 860-863: the scope as an array; a string is split at its spaces.
ScopeArray(scope) == IF TypeOf(scope) = "string" THEN Arr(split(scope.v)) ELSE scope
\* - openid is prepended whether it is there or not:
ScopeParam_always(scope) ==
    IF ~Truthy(scope) THEN Chars(OpenId)
    ELSE IF TypeOf(scope) = "string" THEN Chars(join(<<OpenId>> \o split(scope.v)))
    ELSE IF scope.t = "array" THEN Chars(join(<<OpenId>> \o scope.v))
    ELSE Undef
\* Lines 864-868: openid is put in front of an array that does not include
\* it, and the array is joined with spaces.
WithOpenId(arr) ==
    IF arr.t = "array"
    THEN Chars(join(IF includes(arr.v, OpenId) THEN arr.v ELSE <<OpenId>> \o arr.v))
    ELSE Undef
\* Lines 859-873: params.scope for a scope (undefined when the parameter is
\* not set).  A scope array holds strings.
ScopeParam(scope) ==
    IF ~Truthy(scope) THEN Chars(OpenId) ELSE WithOpenId(ScopeArray(scope))
\* Lines 864-867: scope.unshift("openid") changes the array it is called
\* on.  When options.scope is not truthy that array is this._scope itself:
\* what this._scope holds after the call.
ScopeAfter(optionsScope, configured) ==
    IF ~Truthy(optionsScope) /\ configured.t = "array" /\ ~includes(configured.v, OpenId)
    THEN Arr(<<OpenId>> \o configured.v)
    ELSE configured
\* Line 859: the scope is options.scope || this._scope.
BuildScope(optionsScope, configured) ==
    ScopeParam(IF Truthy(optionsScope) THEN optionsScope ELSE configured)

\* Lines 850-920: the parameters of the authorization request before PKCE.
\* (prompt, display and the other pass-through parameters are not modelled
\* here.)
AuthParams(n) ==
    LET p0 == [k \in {"response_type", "client_id", "scope"} |->
                 CASE k = "response_type" -> Str("code")
                   [] k = "client_id" -> cfg.clientID
                   [] OTHER -> BuildScope(Undef, cfg.scope)]
        p1 == IF Truthy(cfg.maxAge) THEN Put(p0, "max_age", cfg.maxAge) ELSE p0
    IN IF Truthy(cfg.nonce) THEN Put(p1, "nonce", uid(NonceDraw(n))) ELSE p1

\* Lines 912-920: the context handed to the state store; t is Date.now().
AuthCtx(params, t) ==
    LET c0 == IF Truthy(Get(params, "max_age"))
              THEN [k \in {"maxAge", "issued"} |->
                      IF k = "maxAge" THEN params["max_age"] ELSE DateOf(t)]
              ELSE EmptyObj
    IN IF Truthy(Get(params, "nonce")) THEN Put(c0, "nonce", params["nonce"]) ELSE c0

\* Lines 924-947: PKCE.  unsupported = TRUE is the return self.error(...) of
\* line 938.
Pkce(params, c, n) ==
    LET verifier == uid(VerifierDraw(n))
    IN IF ~Truthy(cfg.pkce) THEN [unsupported |-> FALSE, params |-> params, ctx |-> c]
       ELSE IF ~(StrictEq(cfg.pkce, Str("S256")) \/ StrictEq(cfg.pkce, Str("plain")))
       THEN [unsupported |-> TRUE, params |-> params, ctx |-> c]
       ELSE [unsupported |-> FALSE,
             params |-> Put(Put(params, "code_challenge",
                                IF StrictEq(cfg.pkce, Str("S256"))
                                THEN Sha256(verifier) ELSE verifier),
                            "code_challenge_method", Str("S256")),
             ctx |-> Put(c, "verifier", verifier)]

\* The arguments of the call this._stateStore.store(req, ctx, state, stored)
\* of line 975.
StoreCallArgs(c, state) == <<Str("req"), c, state, Fn("stored")>>

\* Lines 953-972: stored(err, handle).
stored(err, handle, params) ==
    IF IsErr(err) THEN ErrorOutcome(err)
    ELSE IF ~Truthy(handle)
    THEN ErrorOutcome(Err("Error",
            "OpenID Connect state store did not yield state for authentication request"))
    ELSE RedirectOutcome(Put(params, "state", handle))

\* Lines 849-979: the authorization leg as a whole, for a request with
\* options.state = appState on the session object sess, when n - 1 random
\* values have been drawn and Date.now() is t: the terminal calls made, the
\* session afterwards, the number of random values drawn afterwards plus
\* one, and the handle the store generated (undefined when it generated
\* none).
AuthorizationRequest(n, t, sess, appState) ==
    LET pk == Pkce(AuthParams(n), AuthCtx(AuthParams(n), t), n)
        args == StoreCallArgs(pk.ctx, appState)
        r == SessionStore_store(hasSession, sess, SessionKey, args[2],
                                Bind(StoreParams, args, "appState"),
                                Bind(StoreParams, args, "meta"),
                                Bind(StoreParams, args, "cb"),
                                uid(HandleDraw(n)))
    IN IF pk.unsupported
       THEN [outs |-> <<ErrorOutcome(Err("Error",
                          "Unsupported code verifier transformation method: " \o cfg.pkce.v))>>,
             sess |-> sess, nextUid |-> HandleDraw(n), handle |-> Undef]
       ELSE [outs |-> IF IsErr(r.threw)
                      THEN <<ErrorOutcome(r.threw)>>
                      ELSE <<stored(r.err, r.handle, pk.params)>>,
             sess |-> r.sess,
             nextUid |-> IF hasSession THEN HandleDraw(n) + 1 ELSE HandleDraw(n),
             handle |-> IF hasSession THEN uid(HandleDraw(n)) ELSE Undef]

NoRequest ==
    [leg |-> "none", error |-> Undef, code |-> Undef, state |-> Undef, appState |-> Undef]
NoCtx == [ok |-> FALSE, ctx |-> EmptyObj, state |-> Undef]
NoTok == [checked |-> FALSE, violated |-> {}]
NoCalls == [token |-> 0, decide |-> 0, userinfo |-> 0, verify |-> 0, sent |-> EmptyObj]
NoIdTokenIn == [idToken |-> Undef, c |-> EmptyObj, nowMs |-> 0]
NoIdTokenOut == [done |-> FALSE, check |-> 0, out |-> <<>>]
NoGiven == [kind |-> "none"]
NoReturned == [done |-> FALSE, value |-> Undef]

\* The application is up, with or without session support; the session holds
\* what the application put there and, possibly, the state an authorization
\* request made before the behaviour starts has left in it.
Init ==
    /\ cfg \in Configs
    /\ hasSession \in BOOLEAN
    /\ now = StartMs
    /\ \E s \in (IF hasSession THEN AppSessions ELSE {EmptyObj}) :
          \/ session = s /\ nextUid = 1 /\ issued = {}
          \/ /\ hasSession
             /\ \E appState \in AppStates :
                   LET r == AuthorizationRequest(1, StartMs, s, appState)
                   IN /\ Truthy(r.handle)
                      /\ session = r.sess
                      /\ nextUid = r.nextUid
                      /\ issued = {[handle |-> r.handle, appState |-> appState]}
    /\ started = 0
    /\ pc = [a \in Attempts |-> "new"]
    /\ req = [a \in Attempts |-> NoRequest]
    /\ ctx = [a \in Attempts |-> NoCtx]
    /\ tok = [a \in Attempts |-> NoTok]
    /\ out = [a \in Attempts |-> <<>>]
    /\ calls = [a \in Attempts |-> NoCalls]
    /\ idTokenIn = NoIdTokenIn
    /\ idTokenOut = NoIdTokenOut
    /\ given = NoGiven
    /\ returned = NoReturned

\* The next authenticate() call is attempt started + 1.
Arrives(a) == a = started + 1 /\ a \in Attempts

\* The request of an attempt: the query of its URL, and options.state.
Request(leg, error, code, state, appState) ==
    [leg |-> leg, error |-> error, code |-> code, state |-> state, appState |-> appState]

\* The handle now pending in the session (undefined when there is none).
PendingHandle ==
    IF Has(session, SessionKey) /\ Has(session[SessionKey], "state")
    THEN Get(session[SessionKey]["state"], "handle")
    ELSE Undef

\* The state parameters a request presents: a handle the store has generated
\* (pending or not), or a value it never generated.
PresentedStates == {i.handle : i \in issued} \cup {Str("XXXXXXXX")}

\* ------------------------------------------------------------------------
\* Strategy.prototype.authenticate: the requests

\* The query of an authorization error response.
ErrorQuery(error, description, uri, code) ==
    [error |-> error, error_description |-> description, error_uri |-> uri, code |-> code]
\* new AuthorizationError(message, code, uri) (lib/errors/authorizationerror.js)
AuthorizationError(description, code, uri) ==
    Outcome("error", "AuthorizationError", description, 0,
            [k \in {"code", "uri"} |-> IF k = "code" THEN code ELSE uri])

\* - the error is built without the error_uri of the query:
QueryError_noUri(query) ==
    IF query.error = Str("access_denied")
    THEN FailOutcome(query.error_description, 0)
    ELSE AuthorizationError(query.error_description, query.error, Undef)
\* Lines 390-400: what a query with an error ends in.  The query's values
\* are strings, on which == is ===.
QueryError(query) ==
    IF query.error = Str("access_denied")
    THEN FailOutcome(query.error_description, 0)
    ELSE AuthorizationError(query.error_description, query.error, query.error_uri)

\* - the state store is asked to verify the state of an error response:
ErrorResponseWith_verifies(a, query) ==
    /\ Arrives(a)
    /\ Truthy(query.error)
    /\ req' = [req EXCEPT ![a] = Request("error", query.error, query.code, PendingHandle, Undef)]
    /\ out' = [out EXCEPT ![a] = <<QueryError(query)>>]
    /\ pc' = [pc EXCEPT ![a] = "done"]
    /\ started' = a
    /\ session' = SessionStore_verify(hasSession, session, SessionKey, PendingHandle).sess
    /\ UNCHANGED <<returned, given, idTokenIn, idTokenOut, cfg, hasSession, now, nextUid, issued, ctx, tok, calls>>
\* Lines 389-401: the query carries an error.
ErrorResponseWith(a, query) ==
    /\ Arrives(a)
    /\ Truthy(query.error)
    /\ req' = [req EXCEPT ![a] = Request("error", query.error, query.code, PendingHandle, Undef)]
    /\ out' = [out EXCEPT ![a] = <<QueryError(query)>>]
    /\ pc' = [pc EXCEPT ![a] = "done"]
    /\ started' = a
    /\ UNCHANGED <<returned, given, idTokenIn, idTokenOut, cfg, hasSession, session, now, nextUid, issued, ctx, tok, calls>>

\* The error responses of the flow: the user denied access, the provider failed.
FlowErrorQueries ==
    { ErrorQuery(Str("access_denied"), Str("Denied"), Undef, Str("code")),
      ErrorQuery(Str("server_error"), Str("Oops"), Str("https://op.example/e"), Str("code")) }
ErrorResponse(a) == \E query \in FlowErrorQueries : ErrorResponseWith(a, query)

\* Lines 849-979: the authorization leg (no error and no code in the query).
AuthorizationLegWith(a, appStates) ==
    /\ Arrives(a)
    /\ \E appState \in appStates :
         \E r \in {AuthorizationRequest(nextUid, now, session, appState)} :
            /\ req' = [req EXCEPT ![a] = Request("authorize", Undef, Undef, Undef, appState)]
            /\ out' = [out EXCEPT ![a] = r.outs]
            /\ session' = r.sess
            /\ nextUid' = r.nextUid
            /\ issued' = IF Truthy(r.handle)
                         THEN issued \cup {[handle |-> r.handle, appState |-> appState]}
                         ELSE issued
    /\ cfg' = [cfg EXCEPT !.scope = ScopeAfter(Undef, cfg.scope)]
    /\ pc' = [pc EXCEPT ![a] = "done"]
    /\ started' = a
    /\ UNCHANGED <<returned, given, idTokenIn, idTokenOut, hasSession, now, ctx, tok, calls>>

AuthorizationLeg(a) == AuthorizationLegWith(a, AppStates)

\* What a synchronous stretch of the callback leg does: the terminal calls it
\* makes and where the attempt is suspended afterwards.
Step(next, outs) == [next |-> next, outs |-> outs]

\* - the verifier is not passed on:
TokenParams_noVerifier(c) == [k \in {"grant_type"} |-> Str("authorization_code")]
\* Lines 430-446: the parameters of the token request made for the restored
\* context c (redirect_uri is not modelled).
TokenParams(c) ==
    IF Truthy(cfg.pkce)
    THEN [k \in {"grant_type", "code_verifier"} |->
            IF k = "grant_type" THEN Str("authorization_code") ELSE Get(c, "verifier")]
    ELSE [k \in {"grant_type"} |-> Str("authorization_code")]

\* - the verifier of the restored context is not looked at:
restored_anyVerifier(err, ok, c, state) ==
    IF IsErr(err) THEN Step("done", <<ErrorOutcome(err)>>)
    ELSE IF ~ok THEN Step("done", <<FailOutcome(state, ForbiddenStatus)>>)
    ELSE Step("token", <<>>)
\* Lines 421-448: restored(err, ctx, state) up to the call of the token
\* endpoint.  ok = FALSE is ctx = false.
restored(err, ok, c, state) ==
    IF IsErr(err) THEN Step("done", <<ErrorOutcome(err)>>)
    ELSE IF ~ok THEN Step("done", <<FailOutcome(state, ForbiddenStatus)>>)
    ELSE IF Truthy(cfg.pkce) /\ ~Truthy(Get(c, "verifier"))
    THEN Step("done", <<ErrorOutcome(Err("Error",
            "PKCE flag is defined but verifier string is not found in session ctx"))>>)
    ELSE Step("token", <<>>)

\* Lines 416, 842-847: the callback leg (the query carries a code): the state
\* store's verify and restored, which run synchronously.
\* v is what the state store's verify has done with the state parameter.
CallbackLegWith(a, state, v) ==
    /\ Arrives(a)
    /\ \E r \in {restored(v.err, v.ok, v.ctx, v.state)} :
          /\ req' = [req EXCEPT ![a] = Request("callback", Undef, Str("code"), state, Undef)]
          /\ session' = v.sess
          /\ ctx' = [ctx EXCEPT ![a] = [ok |-> v.ok, ctx |-> v.ctx, state |-> v.state]]
          /\ out' = [out EXCEPT ![a] = r.outs]
          /\ pc' = [pc EXCEPT ![a] = r.next]
          /\ calls' = [calls EXCEPT
                          ![a].token = IF r.next = "token" THEN 1 ELSE 0,
                          ![a].sent = IF r.next = "token" THEN TokenParams(v.ctx) ELSE EmptyObj]
    /\ started' = a
    /\ UNCHANGED <<returned, given, idTokenIn, idTokenOut, cfg, hasSession, now, nextUid, issued, tok>>

\* The state store is the SessionStore of lib/state/session.js.
CallbackLeg(a) ==
    \E state \in PresentedStates :
       \E v \in {SessionStore_verify(hasSession, session, SessionKey, state)} :
          CallbackLegWith(a, state, v)

\* ------------------------------------------------------------------------
\* The ID token and its checks (lines 481-624)

\* The claims of an ID token (the object JSON.parse yields); an absent claim
\* is undefined.
Claims(iss, sub, aud, azp, exp, iat, auth_time, nonce) ==
    [t |-> "claims", iss |-> iss, sub |-> sub, aud |-> aud, azp |-> azp, exp |-> exp, iat |-> iat,
     auth_time |-> auth_time, nonce |-> nonce]

\* - the failure is raised as an error instead of being reported softly:
SoftFail_hard(check, message) ==
    [check |-> check, out |-> ErrorOutcome([class |-> "Error", message |-> message])]
SoftFail(check, message) ==
    [check |-> check, out |-> FailOutcome(Str(message), ForbiddenStatus)]
HardError(check, message) ==
    [check |-> check, out |-> ErrorOutcome(Err("Error", message))]
Passed == [check |-> 0, out |-> Outcome("none", "", Undef, 0, EmptyObj)]
\* A property of null is read: the TypeError is thrown inside the callback of
\* the token request, where nothing catches it; no terminal call is made.
IsNull(x) == x.t = "null"
Uncaught(check, property) ==
    [check |-> check,
     out |-> Outcome("throw", "TypeError",
                     Str("Cannot read properties of null (reading '" \o property \o "')"),
                     0, EmptyObj)]

\* claims.aud.indexOf(clientId) === -1
\* - every array is taken to hold the value:
NotInArray_never(arr, x) == FALSE
NotInArray(arr, x) == \A i \in 1..Len(arr.v) : ~StrictEq(arr.v[i], x)

\* Line 594: claims.exp <= Date.now() / 1000, in milliseconds.
\* - the comparison is strict, so that a token expiring now is still good:
Expired_strict(exp, nowMs) == exp.v * MsPerSec < nowMs
Expired(exp, nowMs) == exp.v * MsPerSec <= nowMs

\* Lines 604-606: the negation of
\* !claims.auth_time || ctx.issued.valueOf() - ctx.maxAge * 1000 > claims.auth_time * 1000.
\* - the authentication must be strictly later than issued - maxAge:
AuthenticatedWithin_strict(auth_time, c) ==
    /\ Truthy(auth_time)
    /\ c["issued"].v - c["maxAge"].v * MsPerSec < auth_time.v * MsPerSec
AuthenticatedWithin(auth_time, c) ==
    /\ Truthy(auth_time)
    /\ ~(c["issued"].v - c["maxAge"].v * MsPerSec > auth_time.v * MsPerSec)

\* Variants of the checks, used to show that the properties of the ID-token
\* validation read the checks and their order.
\* - the authorized party is not checked:
IdTokenChecks_noAzp(claims, c, nowMs) ==
    IF IsNull(claims) THEN Uncaught(2, "iss")
    ELSE IF ~Truthy(claims.iss) THEN HardError(2, "ID token missing issuer claim")
    ELSE IF ~Truthy(claims.sub) THEN HardError(2, "ID token missing subject claim")
    ELSE IF ~Truthy(claims.aud) THEN HardError(2, "ID token missing audience claim")
    ELSE IF ~Truthy(claims.exp) THEN HardError(2, "ID token missing expiration time claim")
    ELSE IF ~Truthy(claims.iat) THEN HardError(2, "ID token missing issued at claim")
    ELSE IF ~(TypeOf(claims.aud) = "string" \/ claims.aud.t = "array")
    THEN HardError(3, "ID token audience claim not an array or string value")
    ELSE IF ~StrictEq(claims.iss, cfg.issuer)
    THEN SoftFail(4, "ID token not issued by expected OpenID provider.")
    ELSE IF TypeOf(claims.aud) = "string" /\ ~StrictEq(claims.aud, cfg.clientID)
    THEN SoftFail(5, "ID token not intended for this relying party.")
    ELSE IF claims.aud.t = "array" /\ NotInArray(claims.aud, cfg.clientID)
    THEN SoftFail(5, "ID token not intended for this relying party.")
    ELSE IF claims.aud.t = "array" /\ Len(claims.aud.v) > 1 /\ ~Truthy(claims.azp)
    THEN SoftFail(5, "ID token missing authorizied party claim.")
    ELSE IF Expired(claims.exp, nowMs)
    THEN SoftFail(7, "ID token has expired.")
    ELSE IF Truthy(Get(c, "maxAge")) /\ ~AuthenticatedWithin(claims.auth_time, c)
    THEN SoftFail(8, "Too much time has elapsed since last authentication.")
    ELSE IF Truthy(Get(c, "nonce")) /\ ~StrictEq(claims.nonce, c["nonce"])
    THEN SoftFail(9, "ID token contains invalid nonce.")
    ELSE Passed
\* - a required claim is missing only when it is undefined:
IdTokenChecks_presence(claims, c, nowMs) ==
    IF IsNull(claims) THEN Uncaught(2, "iss")
    ELSE IF claims.iss = Undef THEN HardError(2, "ID token missing issuer claim")
    ELSE IF claims.sub = Undef THEN HardError(2, "ID token missing subject claim")
    ELSE IF claims.aud = Undef THEN HardError(2, "ID token missing audience claim")
    ELSE IF claims.exp = Undef THEN HardError(2, "ID token missing expiration time claim")
    ELSE IF claims.iat = Undef THEN HardError(2, "ID token missing issued at claim")
    ELSE IF ~(TypeOf(claims.aud) = "string" \/ claims.aud.t = "array")
    THEN HardError(3, "ID token audience claim not an array or string value")
    ELSE IF ~StrictEq(claims.iss, cfg.issuer)
    THEN SoftFail(4, "ID token not issued by expected OpenID provider.")
    ELSE IF TypeOf(claims.aud) = "string" /\ ~StrictEq(claims.aud, cfg.clientID)
    THEN SoftFail(5, "ID token not intended for this relying party.")
    ELSE IF claims.aud.t = "array" /\ NotInArray(claims.aud, cfg.clientID)
    THEN SoftFail(5, "ID token not intended for this relying party.")
    ELSE IF claims.aud.t = "array" /\ Len(claims.aud.v) > 1 /\ ~Truthy(claims.azp)
    THEN SoftFail(5, "ID token missing authorizied party claim.")
    ELSE IF Truthy(claims.azp) /\ ~StrictEq(claims.azp, cfg.clientID)
    THEN SoftFail(6, "ID token not issued to this relying party.")
    ELSE IF Expired(claims.exp, nowMs)
    THEN SoftFail(7, "ID token has expired.")
    ELSE IF Truthy(Get(c, "maxAge")) /\ ~AuthenticatedWithin(claims.auth_time, c)
    THEN SoftFail(8, "Too much time has elapsed since last authentication.")
    ELSE IF Truthy(Get(c, "nonce")) /\ ~StrictEq(claims.nonce, c["nonce"])
    THEN SoftFail(9, "ID token contains invalid nonce.")
    ELSE Passed
\* - the nonce check is left out:
IdTokenChecks_noNonce(claims, c, nowMs) ==
    IF IsNull(claims) THEN Uncaught(2, "iss")
    ELSE IF ~Truthy(claims.iss) THEN HardError(2, "ID token missing issuer claim")
    ELSE IF ~Truthy(claims.sub) THEN HardError(2, "ID token missing subject claim")
    ELSE IF ~Truthy(claims.aud) THEN HardError(2, "ID token missing audience claim")
    ELSE IF ~Truthy(claims.exp) THEN HardError(2, "ID token missing expiration time claim")
    ELSE IF ~Truthy(claims.iat) THEN HardError(2, "ID token missing issued at claim")
    ELSE IF ~(TypeOf(claims.aud) = "string" \/ claims.aud.t = "array")
    THEN HardError(3, "ID token audience claim not an array or string value")
    ELSE IF ~StrictEq(claims.iss, cfg.issuer)
    THEN SoftFail(4, "ID token not issued by expected OpenID provider.")
    ELSE IF TypeOf(claims.aud) = "string" /\ ~StrictEq(claims.aud, cfg.clientID)
    THEN SoftFail(5, "ID token not intended for this relying party.")
    ELSE IF claims.aud.t = "array" /\ NotInArray(claims.aud, cfg.clientID)
    THEN SoftFail(5, "ID token not intended for this relying party.")
    ELSE IF claims.aud.t = "array" /\ Len(claims.aud.v) > 1 /\ ~Truthy(claims.azp)
    THEN SoftFail(5, "ID token missing authorizied party claim.")
    ELSE IF Truthy(claims.azp) /\ ~StrictEq(claims.azp, cfg.clientID)
    THEN SoftFail(6, "ID token not issued to this relying party.")
    ELSE IF Expired(claims.exp, nowMs)
    THEN SoftFail(7, "ID token has expired.")
    ELSE IF Truthy(Get(c, "maxAge")) /\ ~AuthenticatedWithin(claims.auth_time, c)
    THEN SoftFail(8, "Too much time has elapsed since last authentication.")
    ELSE Passed
\* - the expiry is checked before the issuer:
IdTokenChecks_expiryFirst(claims, c, nowMs) ==
    IF IsNull(claims) THEN Uncaught(2, "iss")
    ELSE IF ~Truthy(claims.iss) THEN HardError(2, "ID token missing issuer claim")
    ELSE IF ~Truthy(claims.sub) THEN HardError(2, "ID token missing subject claim")
    ELSE IF ~Truthy(claims.aud) THEN HardError(2, "ID token missing audience claim")
    ELSE IF ~Truthy(claims.exp) THEN HardError(2, "ID token missing expiration time claim")
    ELSE IF ~Truthy(claims.iat) THEN HardError(2, "ID token missing issued at claim")
    ELSE IF ~(TypeOf(claims.aud) = "string" \/ claims.aud.t = "array")
    THEN HardError(3, "ID token audience claim not an array or string value")
    ELSE IF Expired(claims.exp, nowMs)
    THEN SoftFail(7, "ID token has expired.")
    ELSE IF ~StrictEq(claims.iss, cfg.issuer)
    THEN SoftFail(4, "ID token not issued by expected OpenID provider.")
    ELSE IF TypeOf(claims.aud) = "string" /\ ~StrictEq(claims.aud, cfg.clientID)
    THEN SoftFail(5, "ID token not intended for this relying party.")
    ELSE IF claims.aud.t = "array" /\ NotInArray(claims.aud, cfg.clientID)
    THEN SoftFail(5, "ID token not intended for this relying party.")
    ELSE IF claims.aud.t = "array" /\ Len(claims.aud.v) > 1 /\ ~Truthy(claims.azp)
    THEN SoftFail(5, "ID token missing authorizied party claim.")
    ELSE IF Truthy(claims.azp) /\ ~StrictEq(claims.azp, cfg.clientID)
    THEN SoftFail(6, "ID token not issued to this relying party.")
    ELSE IF Truthy(Get(c, "maxAge")) /\ ~AuthenticatedWithin(claims.auth_time, c)
    THEN SoftFail(8, "Too much time has elapsed since last authentication.")
    ELSE IF Truthy(Get(c, "nonce")) /\ ~StrictEq(claims.nonce, c["nonce"])
    THEN SoftFail(9, "ID token contains invalid nonce.")
    ELSE Passed

\* Lines 499-624: the checks on the decoded claims, in the order of the code.
\* c is the context restored from the state store, nowMs is Date.now().
\* check is the number of the violated check (2 presence, 3 aud type,
\* 4 issuer, 5 audience, 6 authorized party, 7 expiry, 8 max-age, 9 nonce),
\* 0 when all pass.
IdTokenChecks(claims, c, nowMs) ==
    IF IsNull(claims) THEN Uncaught(2, "iss")
    ELSE IF ~Truthy(claims.iss) THEN HardError(2, "ID token missing issuer claim")
    ELSE IF ~Truthy(claims.sub) THEN HardError(2, "ID token missing subject claim")
    ELSE IF ~Truthy(claims.aud) THEN HardError(2, "ID token missing audience claim")
    ELSE IF ~Truthy(claims.exp) THEN HardError(2, "ID token missing expiration time claim")
    ELSE IF ~Truthy(claims.iat) THEN HardError(2, "ID token missing issued at claim")
    ELSE IF ~(TypeOf(claims.aud) = "string" \/ claims.aud.t = "array")
    THEN HardError(3, "ID token audience claim not an array or string value")
    ELSE IF ~StrictEq(claims.iss, cfg.issuer)
    THEN SoftFail(4, "ID token not issued by expected OpenID provider.")
    ELSE IF TypeOf(claims.aud) = "string" /\ ~StrictEq(claims.aud, cfg.clientID)
    THEN SoftFail(5, "ID token not intended for this relying party.")
    ELSE IF claims.aud.t = "array" /\ NotInArray(claims.aud, cfg.clientID)
    THEN SoftFail(5, "ID token not intended for this relying party.")
    ELSE IF claims.aud.t = "array" /\ Len(claims.aud.v) > 1 /\ ~Truthy(claims.azp)
    THEN SoftFail(5, "ID token missing authorizied party claim.")
    ELSE IF Truthy(claims.azp) /\ ~StrictEq(claims.azp, cfg.clientID)
    THEN SoftFail(6, "ID token not issued to this relying party.")
    ELSE IF Expired(claims.exp, nowMs)
    THEN SoftFail(7, "ID token has expired.")
    ELSE IF Truthy(Get(c, "maxAge")) /\ ~AuthenticatedWithin(claims.auth_time, c)
    THEN SoftFail(8, "Too much time has elapsed since last authentication.")
    ELSE IF Truthy(Get(c, "nonce")) /\ ~StrictEq(claims.nonce, c["nonce"])
    THEN SoftFail(9, "ID token contains invalid nonce.")
    ELSE Passed

\* ------------------------------------------------------------------------
\* The token response and what follows it (lines 451-840)

\* The error of a failed token exchange: err.statusCode, err.data and what
\* JSON.parse(err.data) makes of the data: it throws (NotJson), or yields
\* null or an object, of which the members error, error_description and
\* error_uri are read.
NotJson == [t |-> "notjson", v |-> 0]
ErrorDoc(error, description, uri) ==
    [t |-> "object", error |-> error, error_description |-> description, error_uri |-> uri]
TokenErr(statusCode, data, doc) == [statusCode |-> statusCode, data |-> data, doc |-> doc]
\* new TokenError(message, code, uri) (lib/errors/tokenerror.js)
TokenError_(description, code, uri) ==
    Outcome("error", "TokenError", description, 0,
            [k \in {"code", "uri"} |-> IF k = "code" THEN code ELSE uri])
\* new InternalOAuthError(message, err) (lib/errors/internaloautherror.js)
InternalOAuthError(message, err) ==
    Outcome("error", "InternalOAuthError", Str(message), 0, [k \in {"oauthError"} |-> err])

\* - the status code of the error is not looked at:
TokenFailed_anyStatus(err) ==
    IF Truthy(err.data) /\ err.doc.t = "object" /\ Truthy(err.doc.error)
    THEN TokenError_(err.doc.error_description, err.doc.error, err.doc.error_uri)
    ELSE InternalOAuthError("Failed to obtain access token", err)

\* - the failure is reported as a soft rejection:
TokenFailed_soft(err) == FailOutcome(Str("Failed to obtain access token"), 0)

\* Lines 452-479: the token exchange reported err.  Reading json.error of
\* null throws inside the try, like a failing JSON.parse.
TokenFailed(err) ==
    IF /\ Truthy(err.statusCode) /\ Truthy(err.data)
       /\ err.doc.t = "object" /\ Truthy(err.doc.error)
    THEN TokenError_(err.doc.error_description, err.doc.error, err.doc.error_uri)
    ELSE InternalOAuthError("Failed to obtain access token", err)

\* The token errors of the flow: an OAuth 2.0 error document, a transport error.
TokenErrs ==
    { TokenErr(Num(400), Str("body"), ErrorDoc(Str("invalid_grant"), Str("Bad code"), Undef)),
      TokenErr(Undef, Undef, NotJson) }

\* An ID token: the number of its dot-separated segments, whether its second
\* segment decodes to JSON text, and the claims that text holds.
Jwt(segments, isJson, claims) ==
    [t |-> "jwt", v |-> [segments |-> segments, isJson |-> isJson, claims |-> claims]]

\* Lines 488-497: idToken.split("."), Buffer.from(components[1], "base64"),
\* JSON.parse.  thrown is the exception caught at line 495.
Decode(idToken) ==
    IF idToken.v.segments < 2
    THEN [thrown |-> Err("TypeError", "The first argument must be of type string"),
          claims |-> Undef]
    ELSE IF ~idToken.v.isJson
    THEN [thrown |-> Err("SyntaxError", "Unexpected token in JSON"), claims |-> Undef]
    ELSE [thrown |-> NoErr, claims |-> idToken.v.claims]

\* Lines 481-624: from params.id_token to the end of the checks.  check 1 is
\* the decoding, check 0 means that every check passed; the absence of the
\* id_token is reported before any check.
IdToken(idToken, c, nowMs) ==
    IF ~Truthy(idToken)
    THEN [check |-> 1, out |-> ErrorOutcome(Err("Error", "ID token not present in token response")),
          claims |-> Undef]
    ELSE LET d == Decode(idToken)
         IN IF IsErr(d.thrown)
            THEN [check |-> 1, out |-> ErrorOutcome(d.thrown), claims |-> Undef]
            ELSE LET r == IdTokenChecks(d.claims, c, nowMs)
                 IN [check |-> r.check, out |-> r.out, claims |-> d.claims]

\* x === undefined, for x a value or an object
IsUndefined(x) == "t" \in DOMAIN x /\ x.t = "undefined"

\* A skipUserProfile function: its declared parameter count, and what it
\* reports when called: err and skip through its callback when it declares
\* more than two parameters, skip as its return value otherwise.
Fun(length, err, skip) ==
    [t |-> "function", v |-> "skipUserProfile", length |-> length, err |-> err, skip |-> skip]

\* - nine parameters suffice with the request passed as well:
DefaultSkipUserProfile_oneTable(passReqToCallback, arity) ==
    Fun(0, NoErr, IF arity >= 9 THEN Bool(FALSE) ELSE Bool(TRUE))
\* Lines 353-363: the function used when options.skipUserProfile is
\* undefined; arity is verify.length.
DefaultSkipUserProfile(passReqToCallback, arity) ==
    Fun(0, NoErr,
        IF \/ Truthy(passReqToCallback) /\ arity >= 10
           \/ ~Truthy(passReqToCallback) /\ arity >= 9
        THEN Bool(FALSE) ELSE Bool(TRUE))
\* Lines 352-364: this._skipUserProfile.
SkipUserProfile(option, passReqToCallback, arity) ==
    IF IsUndefined(option) THEN DefaultSkipUserProfile(passReqToCallback, arity) ELSE option

\* - the value is used as it is, a function is not called:
shouldLoadUserProfile_valueOnly(skipUserProfile) ==
    [err |-> NoErr, load |-> ~Truthy(skipUserProfile)]
\* Lines 1007-1032: _shouldLoadUserProfile: what it passes to done(err, load).
shouldLoadUserProfile(skipUserProfile) ==
    IF TypeOf(skipUserProfile) = "function" /\ skipUserProfile.length > 2
    THEN IF IsErr(skipUserProfile.err)
         THEN [err |-> skipUserProfile.err, load |-> FALSE]
         ELSE [err |-> NoErr, load |-> ~Truthy(skipUserProfile.skip)]
    ELSE LET skip == IF TypeOf(skipUserProfile) = "function"
                     THEN skipUserProfile.skip ELSE skipUserProfile
         IN [err |-> NoErr, load |-> ~Truthy(skip)]

\* - the application state is never put into info:
verified_keepsInfo(err, user, info, state) ==
    IF IsErr(err) THEN ErrorOutcome(err)
    ELSE IF ~Truthy(user) THEN Outcome("fail", "", Get(info, "message"), 0, info)
    ELSE SuccessOutcome(user, IF IsUndefined(info) THEN EmptyObj ELSE info)

\* Lines 644-658: verified(err, user, info); state is the application state
\* restored from the session.  this.fail(info) passes info as it is; on
\* success an info of undefined is the empty object.
verified(err, user, info, state) ==
    IF IsErr(err) THEN ErrorOutcome(err)
    ELSE IF ~Truthy(user) THEN Outcome("fail", "", Get(info, "message"), 0, info)
    ELSE LET obj == IF IsUndefined(info) THEN EmptyObj ELSE info
         IN SuccessOutcome(user, IF Truthy(state) THEN Put(obj, "state", state) ELSE obj)

\* What the application's verify function does when it is invoked: it calls
\* done synchronously, calls done later, throws, or calls done and then throws.
VerifyBehaviours == {"sync", "async", "throws", "doneThenThrows"}
\* What it passes to done: (err), (null, false, info) or (null, user, info).
Verdicts ==
    { [err |-> Err("Error", "verify failed"), user |-> Undef, info |-> EmptyObj],
      [err |-> NoErr, user |-> Bool(FALSE), info |-> [k \in {"message"} |-> Str("Hello")]],
      [err |-> NoErr, user |-> Str("user"), info |-> EmptyObj] }

\* - the completion callback is passed first:
VerifyArgs_doneFirst(passReqToCallback, arity) == <<"verified", "iss", "profile">>
\* Lines 674-796: the arguments self._verify is called with, by
\* self._passReqToCallback and arity = self._verify.length.  profile is the
\* merged profile, verified the completion callback.
VerifyArgs(passReqToCallback, arity) ==
    LET tokens == <<"accessToken", "refreshToken">>
    IN IF Truthy(passReqToCallback)
       THEN CASE arity = 10 -> <<"req", "iss", "uiProfile", "idProfile", "context", "idToken">>
                                  \o tokens \o <<"params", "verified">>
              [] arity = 9 -> <<"req", "iss", "profile", "context", "idToken">>
                                  \o tokens \o <<"params", "verified">>
              [] arity = 8 -> <<"req", "iss", "profile", "context", "idToken">>
                                  \o tokens \o <<"verified">>
              [] arity = 6 -> <<"req", "iss", "profile", "context", "idToken", "verified">>
              [] arity = 5 -> <<"req", "iss", "profile", "context", "verified">>
              [] OTHER -> <<"req", "iss", "profile", "verified">>
       ELSE CASE arity = 9 -> <<"iss", "uiProfile", "idProfile", "context", "idToken">>
                                  \o tokens \o <<"params", "verified">>
              [] arity = 8 -> <<"iss", "profile", "context", "idToken">>
                                  \o tokens \o <<"params", "verified">>
              [] arity = 7 -> <<"iss", "profile", "context", "idToken">>
                                  \o tokens \o <<"verified">>
              [] arity = 5 -> <<"iss", "profile", "context", "idToken", "verified">>
              [] arity = 4 -> <<"iss", "profile", "context", "verified">>
              [] OTHER -> <<"iss", "profile", "verified">>

\* Lines 642-801: loaded(): the verify function is invoked inside try/catch.
loaded(behaviour, verdict, state) ==
    CASE behaviour = "sync" ->
           Step("done", <<verified(verdict.err, verdict.user, verdict.info, state)>>)
      [] behaviour = "async" -> Step("verify", <<>>)
      [] behaviour = "throws" ->
           Step("done", <<ErrorOutcome(Err("Error", "thrown by verify"))>>)
      [] OTHER ->
           Step("done", <<verified(verdict.err, verdict.user, verdict.info, state),
                          ErrorOutcome(Err("Error", "thrown by verify"))>>)

\* The claims a token endpoint returns.  A nonce claim of Echo stands for the
\* nonce recorded for the request.
Echo == [t |-> "echo", v |-> 0]
GoodClaims ==
    Claims(Issuer, Str("subject"), ClientId, Undef, Num(3), Num(1), Num(2), Echo)
Other == Str("other")
Deviations ==
    { <<"iss", Str("https://evil.example")>>, <<"sub", Undef>>, <<"aud", Num(5)>>,
      <<"aud", Arr(<<ClientId, Other>>)>>, <<"azp", Other>>, <<"exp", Num(2)>>,
      <<"auth_time", Num(1)>>, <<"nonce", Str("bad")>> }
FlowClaims ==
    {GoodClaims} \cup {[GoodClaims EXCEPT ![d[1]] = d[2]] : d \in Deviations}
Resolve(claims, c) ==
    IF IsNull(claims) THEN claims
    ELSE [claims EXCEPT !.nonce = IF @.t = "echo" THEN Get(c, "nonce") ELSE @]
\* The ID tokens a token endpoint returns: none, one without a second
\* segment, one whose payload is no JSON text, one whose payload is the JSON
\* text null, and those that carry claims.
FlowTokens ==
    {Undef, Jwt(1, FALSE, Undef), Jwt(3, FALSE, Undef), Jwt(3, TRUE, Null)}
        \cup {Jwt(3, TRUE, cl) : cl \in FlowClaims}
\* The ID token received for a request whose restored context is c.
Received(t, c) ==
    IF t.t = "jwt" /\ t.v.isJson THEN Jwt(t.v.segments, TRUE, Resolve(t.v.claims, c)) ELSE t

\* History of an attempt's ID token, read by no action: which checks of the
\* checklist the received token violates (1 decodable, 2 required claims,
\* 3 aud type, 4 issuer, 5 audience, 6 authorized party, 7 expiry, 8 max-age,
\* 9 nonce), for the context c and at the time nowMs of the validation.
Decodable(idToken) == Truthy(idToken) /\ idToken.v.segments >= 2 /\ idToken.v.isJson
Violates(i, cl, c, nowMs) ==
    CASE i = 2 -> \E f \in {"iss", "sub", "aud", "exp", "iat"} : ~Truthy(cl[f])
      [] i = 3 -> cl.aud.t \notin {"string", "array"}
      [] i = 4 -> cl.iss # cfg.issuer
      [] i = 5 -> \/ cl.aud.t = "string" /\ cl.aud # cfg.clientID
                  \/ cl.aud.t = "array" /\ cfg.clientID \notin {cl.aud.v[j] : j \in DOMAIN cl.aud.v}
                  \/ cl.aud.t = "array" /\ Len(cl.aud.v) > 1 /\ ~Truthy(cl.azp)
      [] i = 6 -> Truthy(cl.azp) /\ cl.azp # cfg.clientID
      [] i = 7 -> cl.exp.t = "number" /\ cl.exp.v * MsPerSec <= nowMs
      [] i = 8 -> /\ Truthy(Get(c, "maxAge"))
                  /\ \/ ~Truthy(cl.auth_time)
                     \/ c["issued"].v - c["maxAge"].v * MsPerSec > cl.auth_time.v * MsPerSec
      [] OTHER -> Truthy(Get(c, "nonce")) /\ cl.nonce # c["nonce"]
Checked(idToken, c, nowMs) ==
    [checked |-> TRUE,
     violated |-> IF ~Decodable(idToken) THEN {1}
                  ELSE IF IsNull(idToken.v.claims) THEN {2}
                  ELSE {i \in 2..9 : Violates(i, idToken.v.claims, c, nowMs)}]

\* The token exchange fails (lines 452-479).
TokenErrorWith(a, err) ==
    /\ pc[a] = "token"
    /\ out' = [out EXCEPT ![a] = <<TokenFailed(err)>>]
    /\ pc' = [pc EXCEPT ![a] = "done"]
    /\ UNCHANGED <<returned, given, idTokenIn, idTokenOut, cfg, hasSession, session, now, nextUid, issued, started, req, ctx, tok, calls>>

\* The token exchange succeeds and the ID token is absent, undecodable or
\* violates a check (lines 481-624): the attempt ends there.
TokenRejected(a) ==
    /\ pc[a] = "token"
    /\ \E t \in FlowTokens :
         LET idToken == Received(t, ctx[a].ctx)
             r == IdToken(idToken, ctx[a].ctx, now)
         IN /\ r.check # 0
            /\ out' = [out EXCEPT ![a] = IF r.out.kind = "throw" THEN <<>> ELSE <<r.out>>]
            /\ pc' = [pc EXCEPT ![a] = IF r.out.kind = "throw" THEN "thrown" ELSE "done"]
            /\ tok' = [tok EXCEPT ![a] = Checked(idToken, ctx[a].ctx, now)]
    /\ UNCHANGED <<returned, given, idTokenIn, idTokenOut, cfg, hasSession, session, now, nextUid, issued, started, req, ctx, calls>>

\* The token exchange succeeds and the ID token passes every check (lines
\* 481-840): the decision whether to load the user profile follows and, when
\* it is not loaded, loaded() with the call of the verify function.
\* t is the ID token received; behaviours and verdicts are what the verify
\* function may do if it is called in this step.
TokenAcceptedWith(a, t, behaviours, verdicts) ==
    /\ pc[a] = "token"
    /\ LET idToken == Received(t, ctx[a].ctx)
           r == IdToken(idToken, ctx[a].ctx, now)
       IN /\ r.check = 0
          /\ tok' = [tok EXCEPT ![a] = Checked(idToken, ctx[a].ctx, now)]
    /\ \E d \in {shouldLoadUserProfile(cfg.skipUserProfile)} :
          IF IsErr(d.err)
          THEN /\ pc' = [pc EXCEPT ![a] = "done"]
               /\ out' = [out EXCEPT ![a] = <<ErrorOutcome(d.err)>>]
               /\ calls' = [calls EXCEPT ![a].decide = @ + 1]
          ELSE IF d.load
          THEN /\ pc' = [pc EXCEPT ![a] = "userinfo"]
               /\ out' = out
               /\ calls' = [calls EXCEPT ![a].decide = @ + 1, ![a].userinfo = @ + 1]
          ELSE /\ \E behaviour \in behaviours, verdict \in verdicts :
                    LET l == loaded(behaviour, verdict, ctx[a].state)
                    IN /\ pc' = [pc EXCEPT ![a] = l.next]
                       /\ out' = [out EXCEPT ![a] = l.outs]
               /\ calls' = [calls EXCEPT ![a].decide = @ + 1, ![a].verify = @ + 1]
    /\ UNCHANGED <<returned, given, idTokenIn, idTokenOut, cfg, hasSession, session, now, nextUid, issued, started, req, ctx>>

\* - a failed userinfo request drops the pending state of the session:
UserInfoError_dropsState(a) ==
    /\ pc[a] = "userinfo"
    /\ out' = [out EXCEPT ![a] = <<ErrorOutcome(Err("InternalOAuthError",
                                                   "Failed to fetch user profile"))>>]
    /\ pc' = [pc EXCEPT ![a] = "done"]
    /\ session' = IF Has(session, SessionKey) THEN Del(session, SessionKey) ELSE session
    /\ UNCHANGED <<returned, given, idTokenIn, idTokenOut, cfg, hasSession, now, nextUid, issued, started, req, ctx, tok, calls>>
\* Lines 810-834: the userinfo request fails, or its body is not JSON.
UserInfoError(a) ==
    /\ pc[a] = "userinfo"
    /\ \E e \in { Err("InternalOAuthError", "Failed to fetch user profile"),
                  Err("Error", "Failed to parse user profile") } :
         out' = [out EXCEPT ![a] = <<ErrorOutcome(e)>>]
    /\ pc' = [pc EXCEPT ![a] = "done"]
    /\ UNCHANGED <<returned, given, idTokenIn, idTokenOut, cfg, hasSession, session, now, nextUid, issued, started, req, ctx, tok, calls>>

\* Lines 831-833: the userinfo response is parsed and loaded() is called.
UserInfoResponse(a) ==
    /\ pc[a] = "userinfo"
    /\ \E behaviour \in VerifyBehaviours, verdict \in Verdicts :
         LET l == loaded(behaviour, verdict, ctx[a].state)
         IN /\ pc' = [pc EXCEPT ![a] = l.next]
            /\ out' = [out EXCEPT ![a] = l.outs]
    /\ calls' = [calls EXCEPT ![a].verify = @ + 1]
    /\ UNCHANGED <<returned, given, idTokenIn, idTokenOut, cfg, hasSession, session, now, nextUid, issued, started, req, ctx, tok>>

\* The verify function calls done(err, user, info) after it has returned.
VerifyDoneWith(a, verdict) ==
    /\ pc[a] = "verify"
    /\ out' = [out EXCEPT ![a] =
                 @ \o <<verified(verdict.err, verdict.user, verdict.info, ctx[a].state)>>]
    /\ pc' = [pc EXCEPT ![a] = "done"]
    /\ UNCHANGED <<returned, given, idTokenIn, idTokenOut, cfg, hasSession, session, now, nextUid, issued, started, req, ctx, tok, calls>>

VerifyDone(a) == \E verdict \in Verdicts : VerifyDoneWith(a, verdict)
TokenAccepted(a) ==
    \E t \in FlowTokens : TokenAcceptedWith(a, t, VerifyBehaviours, Verdicts)
TokenError(a) == \E err \in TokenErrs : TokenErrorWith(a, err)

\* Lines 385-417 and 843-848: authenticate(req, options) for a request with
\* the given query: an error response, else the callback leg when the query
\* has a code, else the authorization leg.
AuthenticateWith(a, query) ==
    IF Truthy(query.error) THEN ErrorResponseWith(a, query)
    ELSE IF Truthy(query.code)
    THEN \E v \in {SessionStore_verify(hasSession, session, SessionKey, query.state)} :
            CallbackLegWith(a, query.state, v)
    ELSE AuthorizationLegWith(a, {Undef})

\* ------------------------------------------------------------------------
\* The environment

\* Time passes.
Tick ==
    /\ now < StartMs + MaxTicks * TickMs
    /\ now' = now + TickMs
    /\ UNCHANGED <<returned, given, idTokenIn, idTokenOut, cfg, hasSession, session, nextUid, issued, started, pc, req, ctx, tok, out, calls>>

Next ==
    \/ \E a \in Attempts :
          \/ ErrorResponse(a)
          \/ AuthorizationLeg(a)
          \/ CallbackLeg(a)
          \/ TokenError(a)
          \/ TokenRejected(a)
          \/ TokenAccepted(a)
          \/ UserInfoError(a)
          \/ UserInfoResponse(a)
          \/ VerifyDone(a)
    \/ Tick

Spec == Init /\ [][Next]_vars

\* The token endpoint, the userinfo endpoint and the verify function answer
\* the calls made to them: a callback that is due is eventually run.
Callback(a) ==
    \/ TokenError(a)
    \/ TokenRejected(a)
    \/ TokenAccepted(a)
    \/ UserInfoError(a)
    \/ UserInfoResponse(a)
    \/ VerifyDone(a)
SpecLive == Init /\ [][Next]_vars /\ \A a \in Attempts : WF_vars(Callback(a))

\* ------------------------------------------------------------------------
\* The handlers of authenticate() on their own: each is given one input out
\* of the full product of its argument values, and attempt 1 stands where
\* the handler is about to run.

Descriptions == {Undef, Str("Denied")}
Uris == {Undef, Str("https://op.example/e")}
\* Queries that carry an error (lines 389-401).
ErrorQueries ==
    { ErrorQuery(error, description, uri, code) :
        error \in {Str("access_denied"), Str("server_error")},
        description \in Descriptions, uri \in Uris, code \in {Undef, Str("code")} }

\* What a verify function may pass to done, and the application state of the
\* authorization request.
Users == {Undef, Bool(FALSE), Num(0), Str(""), Str("user")}
Infos ==
    { Undef, EmptyObj, [k \in {"message"} |-> Str("Hello")],
      [k \in {"state"} |-> Str("mine")] }
GivenVerdicts ==
    [err : {NoErr, Err("Error", "verify failed")}, user : Users, info : Infos]
GivenAppStates == {Undef, Str("app")}

\* The errors of a token exchange: only a non-empty err.data can be a JSON
\* document.
ErrorDocs ==
    {NotJson, Null}
        \cup { ErrorDoc(error, description, uri) :
                 error \in {Undef, Str(""), Str("invalid_grant")},
                 description \in Descriptions, uri \in Uris }
GivenTokenErrs ==
    { TokenErr(statusCode, data, doc) :
        statusCode \in {Undef, Num(400)}, data \in {Str("body")}, doc \in ErrorDocs }
      \cup { TokenErr(statusCode, data, NotJson) :
               statusCode \in {Undef, Num(400)}, data \in {Undef, Str("")} }

\* Attempt 1 is the callback of an authorization request made with appState:
\* the state store has verified its state parameter and restored is about to
\* call the token endpoint (position "token"), or the ID token has been
\* accepted and the verify function has returned without calling done
\* (position "verify").
AtCallback(position, appState) ==
    \E s \in AppSessions :
     \E r \in {AuthorizationRequest(1, StartMs, s, appState)} :
      \E v \in {SessionStore_verify(TRUE, r.sess, SessionKey, r.handle)} :
       LET t == CHOOSE t \in FlowTokens : IdToken(Received(t, v.ctx), v.ctx, StartMs).check = 0
       IN /\ session = v.sess
          /\ nextUid = r.nextUid
          /\ issued = {[handle |-> r.handle, appState |-> appState]}
          /\ started = 1
          /\ pc = [a \in Attempts |-> IF a = 1 THEN position ELSE "new"]
          /\ req = [a \in Attempts |->
                      IF a = 1 THEN Request("callback", Undef, Str("code"), r.handle, Undef)
                      ELSE NoRequest]
          /\ ctx = [a \in Attempts |->
                      IF a = 1 THEN [ok |-> v.ok, ctx |-> v.ctx, state |-> v.state] ELSE NoCtx]
          /\ tok = [a \in Attempts |->
                      IF a = 1 /\ position = "verify"
                      THEN Checked(Received(t, v.ctx), v.ctx, StartMs) ELSE NoTok]
          /\ calls = [a \in Attempts |->
                        IF a = 1
                        THEN [token |-> 1, userinfo |-> 0,
                              decide |-> IF position = "verify" THEN 1 ELSE 0,
                              verify |-> IF position = "verify" THEN 1 ELSE 0,
                              sent |-> TokenParams(v.ctx)]
                        ELSE NoCalls]

\* What a state store (options.store) may hand to restored in answer to the
\* state parameter "h1" of a callback: an error, a refusal, or a context
\* with or without nonce, maxAge and verifier; the session is left as it is.
RestoredCtxs ==
    { [k \in K |-> CASE k = "nonce" -> Str("n1")
                     [] k = "maxAge" -> Num(1)
                     [] k = "issued" -> DateOf(StartMs)
                     [] OTHER -> v] :
        K \in { {}, {"verifier"}, {"nonce"}, {"nonce", "verifier"},
                {"maxAge", "issued", "verifier"} },
        v \in {Str(""), Str("v1")} }
GivenRestored(sess) ==
    { VerifyReturn(sess, Err("Error", "store failed"), FALSE, EmptyObj, Undef),
      VerifyReturn(sess, NoErr, FALSE, EmptyObj, InvalidState) }
        \cup { VerifyReturn(sess, NoErr, TRUE, c, appState) :
                 c \in RestoredCtxs, appState \in GivenAppStates }

\* The queries of a request made while the state of handle is pending: with
\* no, an empty or a non-empty error parameter, with and without a code, with
\* the pending handle, another state or none.
GivenQueries(handle) ==
    { [error |-> error, error_description |-> Str("Denied"), error_uri |-> Undef,
       code |-> code, state |-> state] :
        error \in {Undef, Str(""), Str("access_denied"), Str("server_error")},
        code \in {Undef, Str("code")},
        state \in {Undef, handle, Str("XXXXXXXX")} }
\* An authorization request has been made and its state is pending; no
\* authenticate() call of the behaviour has been made yet.
Pending ==
    \E s \in AppSessions :
     \E r \in {AuthorizationRequest(1, StartMs, s, Undef)} :
       /\ session = r.sess
       /\ nextUid = r.nextUid
       /\ issued = {[handle |-> r.handle, appState |-> Undef]}
       /\ started = 0
       /\ pc = [a \in Attempts |-> "new"]
       /\ req = [a \in Attempts |-> NoRequest]
       /\ ctx = [a \in Attempts |-> NoCtx]
       /\ tok = [a \in Attempts |-> NoTok]
       /\ calls = [a \in Attempts |-> NoCalls]

\* No authenticate() call has been made.
Fresh ==
    /\ session \in AppSessions
    /\ nextUid = 1
    /\ issued = {}
    /\ started = 0
    /\ pc = [a \in Attempts |-> "new"]
    /\ req = [a \in Attempts |-> NoRequest]
    /\ ctx = [a \in Attempts |-> NoCtx]
    /\ tok = [a \in Attempts |-> NoTok]
    /\ calls = [a \in Attempts |-> NoCalls]
PlainConfig == Config(Undef, Undef, Undef, Bool(TRUE))
\* options.scope as an application configures it: not at all, a string, an
\* array with or without openid, an empty array.
ConfiguredScopes ==
    { Undef, Chars(<<"profile">>), Arr(<<>>), Arr(<< <<"profile">> >>),
      Arr(<< <<"profile">>, <<"email">> >>), Arr(<< <<"openid">>, <<"profile">> >>) }
ScopedConfigs ==
    { [c EXCEPT !.scope = scope] : c \in Configs, scope \in ConfiguredScopes }

\* options.skipUserProfile as an application configures it: a boolean, a
\* predicate of two parameters returning its answer, or a predicate of
\* three parameters reporting an error or its answer through its callback.
SkipAnswers == {Bool(TRUE), Bool(FALSE), Undef, Num(0), Str("yes")}
GivenSkips ==
    {Bool(TRUE), Bool(FALSE)}
        \cup {Fun(2, NoErr, answer) : answer \in SkipAnswers}
        \cup {Fun(3, NoErr, answer) : answer \in SkipAnswers}
        \cup {Fun(3, Err("Error", "predicate failed"), Undef)}

InitHandler ==
    /\ hasSession = TRUE
    /\ returned = NoReturned
    /\ now = StartMs
    /\ out = [a \in Attempts |-> <<>>]
    /\ idTokenIn = NoIdTokenIn
    /\ idTokenOut = NoIdTokenOut
    /\ \/ /\ cfg = PlainConfig
          /\ Fresh
          /\ \E query \in ErrorQueries : given = [kind |-> "query", query |-> query]
       \/ /\ cfg \in Configs
          /\ Fresh
          /\ \E v \in GivenRestored(session) :
                given = [kind |-> "restored", state |-> Str("h1"), v |-> v]
       \/ /\ cfg = PlainConfig
          /\ AtCallback("token", Undef)
          /\ \E err \in GivenTokenErrs : given = [kind |-> "tokenErr", err |-> err]
       \/ /\ cfg = PlainConfig
          /\ \E appState \in GivenAppStates :
                /\ AtCallback("verify", appState)
                /\ \E verdict \in GivenVerdicts :
                      given = [kind |-> "verdict", verdict |-> verdict, appState |-> appState]
       \/ /\ cfg \in {PlainConfig, Config(Str("S256"), Bool(TRUE), Num(1), Bool(FALSE))}
          /\ Pending
          /\ \E query \in GivenQueries(PendingHandle) :
                given = [kind |-> "request", query |-> query,
                         session |-> session, nextUid |-> nextUid]
       \/ /\ cfg \in ScopedConfigs
          /\ Fresh
          /\ \E appState \in AppStates : given = [kind |-> "authorize", appState |-> appState]
       \/ /\ cfg \in {Config(Undef, Undef, Undef, skip) : skip \in GivenSkips}
          /\ AtCallback("token", Undef)
          /\ \E t \in FlowTokens, behaviour \in VerifyBehaviours, verdict \in Verdicts :
                /\ IdToken(Received(t, ctx[1].ctx), ctx[1].ctx, now).check = 0
                /\ given = [kind |-> "accepted", t |-> t,
                            behaviour |-> behaviour, verdict |-> verdict]

NextHandler ==
    \/ given.kind = "query" /\ ErrorResponseWith(1, given.query)
    \/ given.kind = "restored" /\ CallbackLegWith(1, given.state, given.v)
    \/ given.kind = "tokenErr" /\ TokenErrorWith(1, given.err)
    \/ given.kind = "verdict" /\ VerifyDoneWith(1, given.verdict)
    \/ given.kind = "request" /\ AuthenticateWith(1, given.query)
    \/ given.kind = "authorize" /\ AuthorizationLegWith(1, {given.appState})
    \/ given.kind = "accepted"
          /\ TokenAcceptedWith(1, given.t, {given.behaviour}, {given.verdict})

SpecHandler == InitHandler /\ [][NextHandler]_vars

\* ------------------------------------------------------------------------
\* The functions of the strategy on their own: each is given one input
\* and applied to it once.

\* The longest scope string (in pieces) and scope array.
MaxScopeLen == 3
Pieces == {"openid", "profile", "email", " "}
RECURSIVE SeqsUpTo(_, _)
SeqsUpTo(S, n) ==
    IF n = 0 THEN {<<>>}
    ELSE LET shorter == SeqsUpTo(S, n - 1)
         IN shorter \cup {Append(q, x) : q \in shorter, x \in S}
\* The scopes an application configures or passes: none, a string, an array
\* of scope values (strings without a space, here of one or two pieces).
ScopeValues == {<<"openid">>, <<"profile">>, <<"email">>, <<"openid", "profile">>}
Scopes ==
    {Undef} \cup {Chars(q) : q \in SeqsUpTo(Pieces, MaxScopeLen)}
            \cup {Arr(q) : q \in SeqsUpTo(ScopeValues, MaxScopeLen)}
GivenScopes ==
    { [kind |-> "scope", options |-> o, configured |-> c] :
        o \in Scopes, c \in {Undef} }
      \cup { [kind |-> "scope", options |-> o, configured |-> c] :
               o \in {Undef, Chars(<<>>)}, c \in Scopes }

\* The verify functions an application passes: by their declared parameter
\* count, with options.passReqToCallback unset or set.
MaxArity == 11
PassReqs == {Undef, Bool(TRUE)}
GivenArities ==
    { [kind |-> k, passReq |-> p, arity |-> n] :
        k \in {"arity", "verify"}, p \in PassReqs, n \in 0..MaxArity }

InitFn ==
    /\ cfg = PlainConfig
    /\ hasSession = TRUE
    /\ now = StartMs
    /\ out = [a \in Attempts |-> <<>>]
    /\ idTokenIn = NoIdTokenIn
    /\ idTokenOut = NoIdTokenOut
    /\ session = EmptyObj
    /\ nextUid = 1
    /\ issued = {}
    /\ started = 0
    /\ pc = [a \in Attempts |-> "new"]
    /\ req = [a \in Attempts |-> NoRequest]
    /\ ctx = [a \in Attempts |-> NoCtx]
    /\ tok = [a \in Attempts |-> NoTok]
    /\ calls = [a \in Attempts |-> NoCalls]
    /\ returned = NoReturned
    /\ given \in GivenScopes \cup GivenArities

FnFrame ==
    UNCHANGED <<given, idTokenIn, idTokenOut, cfg, hasSession, session, now, nextUid, issued,
                started, pc, req, ctx, tok, out, calls>>
Return(value) == ~returned.done /\ returned' = [done |-> TRUE, value |-> value] /\ FnFrame

\* Lines 859-873 applied to the given scopes.
ScopeBuilt == given.kind = "scope" /\ Return(BuildScope(given.options, given.configured))

\* Lines 352-364 and 1007-1032: the decision for an unset skipUserProfile.
Decided ==
    /\ given.kind = "arity"
    /\ Return(shouldLoadUserProfile(SkipUserProfile(Undef, given.passReq, given.arity)))
\* Lines 674-796: the call of the verify function.
VerifyCalled == given.kind = "verify" /\ Return(VerifyArgs(given.passReq, given.arity))

NextFn ==
    \/ ScopeBuilt
    \/ Decided
    \/ VerifyCalled

SpecFn == InitFn /\ [][NextFn]_vars

\* ------------------------------------------------------------------------
\* Properties of the state store and of the two legs

\* The step in which attempt a runs its callback leg / authorization leg.
CallbackStep(a) == pc[a] = "new" /\ pc'[a] # "new" /\ req'[a].leg = "callback"
AuthorizationStep(a) == pc[a] = "new" /\ pc'[a] # "new" /\ req'[a].leg = "authorize"

\* session[key].state exists.
StateStored == Has(session, SessionKey) /\ Has(session[SessionKey], "state")
\* What the application owns under session[key]: every key but state.
AppOwned(sess) == IF Has(sess, SessionKey) THEN Del(sess[SessionKey], "state") ELSE EmptyObj
\* The PKCE configuration lets the authorization leg reach the state store.
PkceSupported == ~Truthy(cfg.pkce) \/ cfg.pkce \in {Str("S256"), Str("plain")}

IsFail(o, message) ==
    o.kind = "fail" /\ o.message = message /\ o.status = 403
Succeeded(a) == \E i \in 1..Len(out[a]) : out[a][i].kind = "success"

\* C1: store(req, ctx, appState) yields a handle h, and verify(req, h) with
\* exactly that handle succeeds, yields back exactly the appState passed to
\* store, whatever its value, and leaves no session[key].state behind.
C1_RoundTrip ==
    [][/\ \A a \in Attempts :
            (AuthorizationStep(a) /\ hasSession /\ PkceSupported)
                => /\ StateStored'
                   /\ out'[a] = <<RedirectOutcome(out'[a][1].data)>>
                   /\ Get(out'[a][1].data, "state") = PendingHandle'
       /\ \A b \in Attempts :
            (CallbackStep(b) /\ hasSession /\ StateStored /\ req'[b].state = PendingHandle)
                => /\ ctx'[b].ok
                   /\ \A i \in issued :
                         i.handle = PendingHandle => ctx'[b].state = i.appState
                   /\ ~StateStored']_vars

\* C2: of two callbacks that present the same valid handle at most one
\* passes verification; verify reads and deletes the state in one step, so
\* the one that comes second finds no state and fails softly with
\* "Unable to verify authorization request state." (when a new state was
\* stored in between it finds that one and fails with "Invalid authorization
\* request state."), without a token exchange.
C2_SingleUse ==
    [][\A b \in Attempts :
          (/\ CallbackStep(b)
           /\ \E a \in Attempts \ {b} : ctx[a].ok /\ req[a].state = req'[b].state)
              => /\ ~ctx'[b].ok
                 /\ pc'[b] = "done"
                 /\ calls'[b].token = 0
                 /\ Len(out'[b]) = 1
                 /\ IsFail(out'[b][1], IF StateStored THEN InvalidState ELSE UnableToVerify)]_vars
C2_Witness ==
    \E a, b \in Attempts :
        /\ a # b /\ req[a].leg = "callback" /\ req[b].leg = "callback"
        /\ req[a].state = req[b].state
        /\ ctx[a].ok /\ ~ctx[b].ok
        /\ out[b] # <<>> /\ IsFail(out[b][1], UnableToVerify)

\* C3: a callback whose state parameter differs from the handle stored in
\* session[key].state fails softly with "Invalid authorization request
\* state." and status 403, calls no token endpoint, and the stored state is
\* removed (session[key] too when it holds no other key).
C3_Mismatch ==
    [][\A a \in Attempts :
          (CallbackStep(a) /\ hasSession /\ StateStored /\ req'[a].state # PendingHandle)
              => /\ Len(out'[a]) = 1 /\ IsFail(out'[a][1], InvalidState)
                 /\ pc'[a] = "done" /\ calls'[a].token = 0
                 /\ ~StateStored'
                 /\ Has(session', SessionKey) <=> DOMAIN session[SessionKey] # {"state"}]_vars
C3_Witness ==
    \E a \in Attempts :
        /\ req[a].leg = "callback" /\ pc[a] = "done"
        /\ out[a] # <<>> /\ IsFail(out[a][1], InvalidState)
        /\ ~Has(session, SessionKey)
        /\ issued # {}

\* C4: with a session in which session[key] is absent or holds no state, a
\* callback fails softly with "Unable to verify authorization request
\* state." and status 403, never with a hard error, and the session is left
\* as it was (an empty session[key] stays).
C4_NoState ==
    [][\A a \in Attempts :
          (CallbackStep(a) /\ hasSession /\ ~StateStored)
              => /\ Len(out'[a]) = 1 /\ IsFail(out'[a][1], UnableToVerify)
                 /\ pc'[a] = "done" /\ calls'[a].token = 0
                 /\ session' = session]_vars
C4_Witness ==
    \E a \in Attempts :
        /\ req[a].leg = "callback" /\ pc[a] = "done"
        /\ out[a] # <<>> /\ IsFail(out[a][1], UnableToVerify)
        /\ Has(session, SessionKey) /\ DOMAIN session[SessionKey] = {}

\* C5: once a callback has presented the matching handle, the state stored
\* under that handle is gone from the session and stays gone, whatever the
\* attempt does next and however it ends, and no second callback consumes it.
C5_Consumed ==
    \A a \in Attempts :
        ctx[a].ok
            => /\ PendingHandle # req[a].state
               /\ \A b \in Attempts \ {a} : ~(ctx[b].ok /\ req[b].state = req[a].state)
C5_Witness ==
    \E a \in Attempts :
        /\ ctx[a].ok /\ pc[a] = "done" /\ tok[a].checked /\ tok[a].violated # {}
        /\ ~StateStored

\* C6: store and verify touch nothing but session[key].state: the keys the
\* application keeps under session[key] stay as they are, no other top-level
\* key of the session changes, and session[key] disappears only when nothing
\* but the state was in it.
C6_Frame ==
    [][/\ \A k \in (DOMAIN session \cup DOMAIN session') \ {SessionKey} :
             Has(session, k) /\ Has(session', k) /\ session'[k] = session[k]
       /\ AppOwned(session') = AppOwned(session)
       /\ (Has(session, SessionKey) /\ ~Has(session', SessionKey))
              => DOMAIN session[SessionKey] = {"state"}
       /\ (Has(session', SessionKey) /\ ~Has(session, SessionKey))
              => DOMAIN session'[SessionKey] = {"state"}]_vars
C6_Witness ==
    /\ \E a \in Attempts : req[a].leg = "authorize" /\ pc[a] = "done"
    /\ \E b \in Attempts : req[b].leg = "callback" /\ pc[b] = "done"
    /\ Has(session, "cart") /\ Has(session, SessionKey)
    /\ DOMAIN session[SessionKey] = {"returnTo"}

\* C7: with a session, the authorization leg ends in a redirect whose state
\* parameter is the handle now stored in session[key].state.handle.
C7_RedirectCarriesHandle ==
    \A a \in Attempts :
        (req[a].leg = "authorize" /\ pc[a] = "done" /\ hasSession /\ PkceSupported)
            => /\ Len(out[a]) = 1
               /\ out[a][1].kind = "redirect"
               /\ \E i \in issued : Get(out[a][1].data, "state") = i.handle

\* C8: without a session both legs end in a hard error: no redirect, no
\* soft failure, no token exchange, no success.
C8_NoSession ==
    \A a \in Attempts :
        (~hasSession /\ req[a].leg \in {"authorize", "callback"})
            => /\ pc[a] = "done"
               /\ Len(out[a]) = 1 /\ out[a][1].kind = "error"
               /\ calls[a] = NoCalls
               /\ ~ctx[a].ok
C8_Witness ==
    /\ ~hasSession
    /\ \E a \in Attempts : req[a].leg = "authorize" /\ out[a] # <<>>
    /\ \E b \in Attempts : req[b].leg = "callback" /\ out[b] # <<>>

\* C9: the verify function is invoked, and the attempt succeeds, only after
\* the presented handle matched the stored one and the ID token was decoded
\* and violated none of the checks.
C9_VerifyOnlyAfterChecks ==
    \A a \in Attempts :
        (calls[a].verify > 0 \/ Succeeded(a))
            => /\ req[a].leg = "callback"
               /\ ctx[a].ok
               /\ \E i \in issued : i.handle = req[a].state
               /\ tok[a].checked /\ tok[a].violated = {}
C9_Witness ==
    \E a \in Attempts :
        /\ calls[a].verify > 0 /\ Succeeded(a)
        /\ Truthy(Get(ctx[a].ctx, "nonce")) /\ Truthy(Get(ctx[a].ctx, "maxAge"))

\* ------------------------------------------------------------------------
\* The validation of the ID token on its own

\* The claims an ID token may hold: every combination of absent, expected
\* and deviating values of each claim.
TokenClaims ==
    { Claims(iss, sub, aud, azp, exp, iat, auth_time, nonce) :
        iss \in {Undef, Issuer, Str("https://evil.example")},
        sub \in {Undef, Str("subject")},
        aud \in {Undef, ClientId, Other, Num(5), Arr(<<ClientId>>),
                 Arr(<<ClientId, Other>>), Arr(<<Other>>), Arr(<<ClientId, Num(5)>>)},
        azp \in {Undef, ClientId, Other},
        exp \in {Undef, Num(2), Num(3)},
        iat \in {Undef, Num(1)},
        auth_time \in {Undef, Num(0), Num(1), Num(2)},
        nonce \in {Undef, uid(1), Str("bad")} }
\* Claims that are present with a falsy value: the empty string, 0.
FalsyValues ==
    { <<"iss", Str("")>>, <<"sub", Str("")>>, <<"aud", Str("")>>, <<"azp", Str("")>>,
      <<"exp", Num(0)>>, <<"iat", Num(0)>> }
\* ID tokens with every required claim, and one or two of their claims
\* replaced by a falsy value.
PresentClaims ==
    { Claims(iss, Str("subject"), aud, azp, exp, Num(1), auth_time, nonce) :
        iss \in {Issuer, Str("https://evil.example")},
        aud \in {ClientId, Other, Arr(<<ClientId, Other>>)},
        azp \in {Undef, ClientId, Other},
        exp \in {Num(2), Num(3)},
        auth_time \in {Undef, Num(1)},
        nonce \in {Undef, uid(1)} }
FalsyClaims ==
    { [cl EXCEPT ![d[1]] = d[2], ![e[1]] = e[2]] :
        cl \in PresentClaims, d \in FalsyValues, e \in FalsyValues }
IdTokens ==
    {Undef, Jwt(1, FALSE, Undef), Jwt(3, FALSE, Undef), Jwt(3, TRUE, Null)}
        \cup {Jwt(3, TRUE, cl) : cl \in TokenClaims \cup FalsyClaims}
\* A session store that keeps the session as JSON text hands back the Date
\* of the state record as the string Date.prototype.toJSON made of it.
Serialised(state) ==
    IF Has(state, "issued") THEN Put(state, "issued", IsoString(state["issued"].v)) ELSE state
\* The contexts verify restores: with and without max_age (of one or two
\* seconds, and the time the request was issued), with and without a nonce,
\* from a session kept in memory or as JSON text.
Contexts ==
    UNION { {VerifyCtx(StoreState(c, Undef, uid(2))),
             VerifyCtx(Serialised(StoreState(c, Undef, uid(2))))} :
        c \in { AuthCtx(p, t) :
                  p \in { [k \in K |-> IF k = "max_age" THEN m ELSE uid(1)] :
                            K \in SUBSET {"max_age", "nonce"}, m \in {Num(1), Num(2)} },
                  t \in {StartMs, StartMs + TickMs} } }
Times == {StartMs + TickMs, StartMs + 2 * TickMs}

InitIdToken ==
    /\ cfg = Config(Undef, Bool(TRUE), Num(1), Bool(TRUE))
    /\ hasSession = TRUE
    /\ session = EmptyObj
    /\ now = StartMs
    /\ nextUid = 1
    /\ issued = {}
    /\ started = 0
    /\ pc = [a \in Attempts |-> "new"]
    /\ req = [a \in Attempts |-> NoRequest]
    /\ ctx = [a \in Attempts |-> NoCtx]
    /\ tok = [a \in Attempts |-> NoTok]
    /\ out = [a \in Attempts |-> <<>>]
    /\ calls = [a \in Attempts |-> NoCalls]
    /\ idTokenIn \in [idToken : IdTokens, c : Contexts, nowMs : Times]
    /\ given = NoGiven
    /\ returned = NoReturned
    /\ idTokenOut = NoIdTokenOut

\* Lines 481-624 applied to the given token.
Validate ==
    /\ ~idTokenOut.done
    /\ LET r == IdToken(idTokenIn.idToken, idTokenIn.c, idTokenIn.nowMs)
       IN idTokenOut' = [done |-> TRUE, check |-> r.check, out |-> <<r.out>>]
    /\ UNCHANGED <<returned, given, idTokenIn, cfg, hasSession, session, now, nextUid, issued, started,
                   pc, req, ctx, tok, out, calls>>

NextIdToken == Validate
SpecIdToken == InitIdToken /\ [][NextIdToken]_vars

\* The checks the given token violates, and the first of them in the order
\* decodable, required claims (iss, sub, aud, exp, iat), aud type, issuer,
\* audience, authorized party, expiry, max-age, nonce.
GivenViolated == Checked(idTokenIn.idToken, idTokenIn.c, idTokenIn.nowMs).violated
First(V) == CHOOSE i \in V : \A j \in V : i <= j
RequiredClaims == <<"iss", "sub", "aud", "exp", "iat">>
ClaimNames ==
    [f \in {"iss", "sub", "aud", "exp", "iat"} |->
        CASE f = "iss" -> "issuer" [] f = "sub" -> "subject" [] f = "aud" -> "audience"
          [] f = "exp" -> "expiration time" [] OTHER -> "issued at"]
FirstMissing(cl) ==
    RequiredClaims[First({i \in 1..Len(RequiredClaims) : ~Truthy(cl[RequiredClaims[i]])})]

Lacks(f) ==
    /\ Decodable(idTokenIn.idToken)
    /\ \/ IsNull(idTokenIn.idToken.v.claims)
       \/ idTokenIn.idToken.v.claims[f] = Undef
Before(f) == {g \in {"iss", "sub", "aud", "exp", "iat"} :
                \E i, j \in 1..Len(RequiredClaims) :
                    i < j /\ RequiredClaims[i] = g /\ RequiredClaims[j] = f}

\* C11: an ID token that lacks one of iss, sub, aud, exp, iat (and none of
\* those checked before it) ends in a hard error whose message names that
\* claim: issuer, subject, audience, expiration time, issued at.
C11_MissingClaimNamed ==
    idTokenOut.done =>
        \A f \in {"iss", "sub", "aud", "exp", "iat"} :
            (Lacks(f) /\ \A g \in Before(f) : ~Lacks(g))
                => /\ idTokenOut.out[1].kind = "error"
                   /\ idTokenOut.out[1].message =
                         Str("ID token missing " \o ClaimNames[f] \o " claim")

\* C12: a token whose first violated check is one of 4 to 9 (issuer,
\* audience, authorized party, expiry, max-age, nonce) ends in a soft failure
\* with status 403, and one whose first violated check is one of 1 to 3
\* (not decodable, required claim missing, aud of the wrong type) ends in a
\* hard error.
C12_FailureClasses ==
    (idTokenOut.done /\ GivenViolated # {})
        => IF First(GivenViolated) <= 3
           THEN idTokenOut.out[1].kind = "error"
           ELSE idTokenOut.out[1].kind = "fail" /\ idTokenOut.out[1].status = 403

\* C13: a callback with a code and the matching state whose ID token holds
\* the required claims and an iss different from the configured issuer ends
\* in the soft failure "ID token not issued by expected OpenID provider."
\* with status 403, and the verify function is not invoked.
C13_IssuerMismatch ==
    \A a \in Attempts :
        (/\ req[a].leg = "callback" /\ ctx[a].ok /\ tok[a].checked
         /\ 4 \in tok[a].violated /\ tok[a].violated \cap {1, 2, 3} = {})
            => /\ pc[a] = "done"
               /\ Len(out[a]) = 1
               /\ IsFail(out[a][1], Str("ID token not issued by expected OpenID provider."))
               /\ calls[a].verify = 0 /\ calls[a].userinfo = 0
C13_Witness ==
    \E a \in Attempts :
        /\ ctx[a].ok /\ tok[a].checked /\ tok[a].violated = {4}
        /\ out[a] # <<>> /\ out[a][1].kind = "fail"

\* The claims of the given token, when it has any.
GivenClaims == idTokenIn.idToken.v.claims
GivenHasClaims == Decodable(idTokenIn.idToken) /\ ~IsNull(GivenClaims)

\* C14: an ID token whose aud is an array holding the client ID and at least
\* one other entry and that has no azp claim (and passes the checks before the
\* audience check) ends in the soft failure "ID token missing authorized
\* party claim.".
C14_MissingAzpMessage ==
    (/\ idTokenOut.done /\ GivenHasClaims
     /\ GivenViolated \cap {1, 2, 3, 4} = {}
     /\ GivenClaims.aud.t = "array" /\ Len(GivenClaims.aud.v) > 1
     /\ \E i \in 1..Len(GivenClaims.aud.v) : GivenClaims.aud.v[i] = ClientId
     /\ GivenClaims.azp = Undef)
        => /\ idTokenOut.out[1].kind = "fail"
           /\ idTokenOut.out[1].message = Str("ID token missing authorized party claim.")

\* aud is a string or an array of strings.
StringOrStrings(aud) ==
    \/ TypeOf(aud) = "string"
    \/ aud.t = "array" /\ \A i \in 1..Len(aud.v) : TypeOf(aud.v[i]) = "string"

\* C27: an ID token that holds the required claims and whose aud is neither
\* a string nor an array of strings (an array with an element that is no
\* string included) ends in the hard error "ID token audience claim not an
\* array or string value".
C27_AudienceType ==
    (/\ idTokenOut.done /\ GivenHasClaims
     /\ GivenViolated \cap {1, 2} = {}
     /\ ~StringOrStrings(GivenClaims.aud))
        => /\ idTokenOut.out[1].kind = "error"
           /\ idTokenOut.out[1].message
                = Str("ID token audience claim not an array or string value")

\* C15: the expiry check passes only when exp is strictly greater than the
\* current time: a token whose exp equals the current time in seconds (or
\* is smaller) ends in the soft failure "ID token has expired." with status
\* 403; there is no allowance for clock skew.
C15_ExpiryBoundary ==
    (idTokenOut.done /\ GivenHasClaims /\ GivenViolated \cap (1..6) = {})
        => IF GivenClaims.exp.v * 1000 > idTokenIn.nowMs
           THEN idTokenOut.check # 7
           ELSE /\ idTokenOut.check = 7
                /\ IsFail(idTokenOut.out[1], Str("ID token has expired."))
C15_Witness ==
    /\ idTokenOut.done /\ GivenHasClaims
    /\ GivenClaims.exp.v * 1000 = idTokenIn.nowMs
    /\ idTokenOut.check = 7

\* The context given to the validation recorded a maxAge.
GivenMaxAge == Truthy(Get(idTokenIn.c, "maxAge"))
\* issuedAt - maxAge * 1000 <= auth_time * 1000
WithinMaxAge ==
    idTokenIn.c["issued"].v - idTokenIn.c["maxAge"].v * 1000 <= GivenClaims.auth_time.v * 1000
TooMuchTime ==
    /\ idTokenOut.check = 8
    /\ IsFail(idTokenOut.out[1], Str("Too much time has elapsed since last authentication."))

\* C16 as stated: when a maxAge was recorded, the max-age check passes
\* exactly when auth_time is present and issuedAt - maxAge * 1000 <=
\* auth_time * 1000; otherwise the soft failure "Too much time has elapsed
\* since last authentication." with status 403; with no maxAge recorded the
\* check is skipped.
C16_MaxAgePresent ==
    (idTokenOut.done /\ GivenHasClaims /\ GivenViolated \cap (1..7) = {})
        => IF GivenMaxAge /\ ~(GivenClaims.auth_time # Undef /\ WithinMaxAge)
           THEN TooMuchTime
           ELSE idTokenOut.check # 8
\* C16, amended: when a maxAge was recorded, the max-age check passes exactly
\* when auth_time is truthy (present and not 0) and issuedAt - maxAge * 1000
\* <= auth_time * 1000 (equality passes); otherwise the soft failure "Too
\* much time has elapsed since last authentication." with status 403; with
\* no maxAge recorded the check is skipped, whatever auth_time is.
C16_MaxAgeTruthy ==
    (idTokenOut.done /\ GivenHasClaims /\ GivenViolated \cap (1..7) = {})
        => IF GivenMaxAge /\ ~(Truthy(GivenClaims.auth_time) /\ WithinMaxAge)
           THEN TooMuchTime
           ELSE idTokenOut.check # 8
C16_Witness ==
    /\ idTokenOut.done /\ GivenHasClaims /\ GivenViolated \cap (1..7) = {}
    /\ GivenMaxAge /\ Truthy(GivenClaims.auth_time)
    /\ idTokenIn.c["issued"].v - idTokenIn.c["maxAge"].v * 1000 = GivenClaims.auth_time.v * 1000
    /\ idTokenOut.check # 8

\* The given token has passed every check before the authorized-party check.
ReachesAzpCheck ==
    idTokenOut.done /\ GivenHasClaims /\ GivenViolated \cap (1..5) = {}
NotIssuedToUs ==
    /\ idTokenOut.check = 6
    /\ IsFail(idTokenOut.out[1], Str("ID token not issued to this relying party."))

\* C31 as stated: an ID token that has an azp claim different from the client
\* ID ends in the soft failure "ID token not issued to this relying party."
\* with status 403, also when aud is the client ID as a single string; with
\* azp equal to the client ID the check is passed.
C31_AzpPresent ==
    (ReachesAzpCheck /\ ~IsUndefined(GivenClaims.azp))
        => IF GivenClaims.azp = ClientId THEN idTokenOut.check # 6 ELSE NotIssuedToUs
\* C31, amended: an ID token whose azp claim is truthy (present and not the
\* empty string) and different from the client ID ends in the soft failure
\* "ID token not issued to this relying party." with status 403, also when
\* aud is the client ID as a single string; with azp equal to the client ID,
\* absent or falsy the check is passed.
C31_AzpTruthy ==
    ReachesAzpCheck
        => IF Truthy(GivenClaims.azp) /\ GivenClaims.azp # ClientId
           THEN NotIssuedToUs
           ELSE idTokenOut.check # 6
C31_Witness ==
    /\ ReachesAzpCheck
    /\ GivenClaims.aud = ClientId /\ GivenClaims.azp = Other
    /\ NotIssuedToUs

\* The audience of the given token is not the client ID: a string different
\* from it, or an array that does not hold it.
WrongAudience ==
    \/ TypeOf(GivenClaims.aud) = "string" /\ GivenClaims.aud # ClientId
    \/ /\ GivenClaims.aud.t = "array"
       /\ \A i \in 1..Len(GivenClaims.aud.v) : GivenClaims.aud.v[i] # ClientId

\* C32: an ID token (decodable, with the required claims) whose aud is a
\* string different from the client ID or an array that does not hold the
\* client ID ends in a soft failure with status 403, whatever its azp claim
\* is: "ID token not intended for this relying party." when the issuer is
\* the expected one; the validation does not pass, so that the verify
\* function is not reached.
C32_WrongAudience ==
    (idTokenOut.done /\ GivenHasClaims /\ GivenViolated \cap (1..3) = {} /\ WrongAudience)
        => /\ idTokenOut.check \in {4, 5}
           /\ idTokenOut.out[1].kind = "fail" /\ idTokenOut.out[1].status = 403
           /\ GivenClaims.iss = Issuer
                 => IsFail(idTokenOut.out[1],
                           Str("ID token not intended for this relying party."))
C32_Witness ==
    /\ idTokenOut.done /\ GivenHasClaims /\ GivenViolated \cap (1..4) = {}
    /\ GivenClaims.aud = Arr(<<Other>>) /\ GivenClaims.azp = ClientId
    /\ IsFail(idTokenOut.out[1], Str("ID token not intended for this relying party."))

\* The required claims the given token holds with a falsy value (0, the
\* empty string), by their place in the order of the presence checks.
FalsyRequired ==
    {i \in 1..Len(RequiredClaims) :
        /\ ~IsUndefined(GivenClaims[RequiredClaims[i]])
        /\ ~Truthy(GivenClaims[RequiredClaims[i]])}
AbsentRequired ==
    {i \in 1..Len(RequiredClaims) : IsUndefined(GivenClaims[RequiredClaims[i]])}

\* C40: an ID token that holds a required claim with a falsy value (exp = 0,
\* iat = 0, an empty iss, sub or aud) ends in the hard error "ID token
\* missing ... claim" of the first such claim (no required claim being
\* absent before it), never in the soft failure of a later check.
C40_FalsyIsMissing ==
    (idTokenOut.done /\ GivenHasClaims /\ FalsyRequired # {})
        => /\ idTokenOut.check = 2
           /\ idTokenOut.out[1].kind = "error"
           /\ (\A i \in AbsentRequired : i > First(FalsyRequired))
                 => idTokenOut.out[1].message
                      = Str("ID token missing "
                              \o ClaimNames[RequiredClaims[First(FalsyRequired)]] \o " claim")
C40_Witness ==
    /\ idTokenOut.done /\ GivenHasClaims
    /\ GivenClaims.exp = Num(0) /\ FalsyRequired = {4}
    /\ 4 \notin GivenViolated
    /\ idTokenOut.out[1].kind = "error"
    /\ idTokenOut.out[1].message = Str("ID token missing expiration time claim")

\* C17: in nonce mode the nonce sent in the authorization request is the
\* one recorded in the pending state of the request's handle, and a callback
\* for a state that recorded a nonce passes the nonce check only if the nonce
\* claim of the ID token equals it; a missing or different nonce claim ends
\* in the soft failure "ID token contains invalid nonce." with status 403.
C17_NonceBound ==
    [][/\ \A a \in Attempts :
            (AuthorizationStep(a) /\ hasSession /\ PkceSupported /\ Truthy(cfg.nonce))
                => /\ StateStored'
                   /\ Len(out'[a]) = 1 /\ out'[a][1].kind = "redirect"
                   /\ Get(out'[a][1].data, "state") = PendingHandle'
                   /\ Truthy(Get(out'[a][1].data, "nonce"))
                   /\ Get(out'[a][1].data, "nonce")
                         = Get(session'[SessionKey]["state"], "nonce")
       /\ \A b \in Attempts :
            (/\ pc[b] = "token" /\ tok'[b].checked
             /\ Truthy(Get(ctx[b].ctx, "nonce")) /\ tok'[b].violated \cap (1..8) = {})
                => IF 9 \in tok'[b].violated
                   THEN /\ Len(out'[b]) = 1
                        /\ IsFail(out'[b][1], Str("ID token contains invalid nonce."))
                   ELSE calls'[b].verify + calls'[b].userinfo > 0]_vars

\* C22: on the authorization leg with a session, PKCE mode S256 redirects
\* with a code_challenge that is the SHA-256 of the verifier recorded in the
\* pending state and code_challenge_method S256; mode plain redirects with
\* the recorded verifier itself as code_challenge and code_challenge_method
\* S256; any other truthy mode ends in one hard error, without a redirect
\* and with the session left as it was.
C22_PkceChallenge ==
    [][\A a \in Attempts :
          (AuthorizationStep(a) /\ hasSession /\ Truthy(cfg.pkce))
             => IF PkceSupported
                THEN /\ Len(out'[a]) = 1 /\ out'[a][1].kind = "redirect"
                     /\ StateStored'
                     /\ LET verifier == Get(session'[SessionKey]["state"], "verifier")
                            sent == out'[a][1].data
                        IN /\ Truthy(verifier)
                           /\ Get(sent, "code_challenge")
                                 = IF cfg.pkce = Str("S256") THEN Sha256(verifier) ELSE verifier
                           /\ Get(sent, "code_challenge_method") = Str("S256")
                ELSE /\ Len(out'[a]) = 1 /\ out'[a][1].kind = "error"
                     /\ out'[a][1].message
                          = Str("Unsupported code verifier transformation method: " \o cfg.pkce.v)
                     /\ session' = session]_vars

\* C33: with PKCE enabled and the default store, the code_verifier sent to
\* the token endpoint on the callback leg is the verifier recorded in the
\* pending state of the handle the callback presents, which is the verifier
\* the authorization request of that handle generated and produced its
\* code_challenge from.
C33_VerifierRoundTrip ==
    [][\A a \in Attempts :
          (CallbackStep(a) /\ Truthy(cfg.pkce) /\ calls'[a].token = 1)
             => /\ StateStored /\ PendingHandle = req'[a].state
                /\ LET verifier == Get(calls'[a].sent, "code_verifier")
                   IN /\ Truthy(verifier)
                      /\ verifier = Get(session[SessionKey]["state"], "verifier")
                      /\ \E n \in 1..nextUid :
                            /\ uid(HandleDraw(n)) = req'[a].state
                            /\ verifier = uid(VerifierDraw(n))
                            /\ Get(Pkce(AuthParams(n), EmptyObj, n).params, "code_challenge")
                                  = IF cfg.pkce = Str("S256")
                                    THEN Sha256(verifier) ELSE verifier]_vars
C33_Witness ==
    \E a \in Attempts :
       /\ req[a].leg = "callback" /\ Truthy(cfg.pkce) /\ calls[a].token = 1
       /\ Get(calls[a].sent, "code_verifier") \in {uid(n) : n \in 1..nextUid}

\* The pending state record, and the application state its request supplied.
PendingRecord == session[SessionKey]["state"]
PendingAppState ==
    (CHOOSE i \in issued : i.handle = PendingRecord["handle"]).appState
\* The layout of the pending record but for its state field.
RecordLayout ==
    /\ DOMAIN PendingRecord
          \subseteq {"handle", "maxAge", "nonce", "issued", "verifier", "state"}
    /\ Has(PendingRecord, "handle")
    /\ PendingRecord["handle"] \in {i.handle : i \in issued}
    /\ Has(PendingRecord, "maxAge") <=> Truthy(cfg.maxAge)
    /\ Has(PendingRecord, "issued") <=> Has(PendingRecord, "maxAge")
    /\ Has(PendingRecord, "nonce") <=> Truthy(cfg.nonce)
    /\ Has(PendingRecord, "verifier") <=> Truthy(cfg.pkce)

C36_OneOutcome ==
    \A a \in Attempts : Len(out[a]) <= 1 /\ calls[a].verify <= 1

\* C37: every attempt that has started eventually makes a terminal call
\* (redirect, success, fail or error), given that the endpoints and the
\* verify function answer.
C37_Terminates ==
    \A a \in Attempts : (pc[a] # "new") ~> (Len(out[a]) > 0)

\* Attempt a is past the state verification of its callback leg and waits
\* for the token endpoint, the userinfo endpoint or the verify function.
InFlight(a) == pc[a] \in {"token", "userinfo", "verify"}

\* C38: once the state verification of a callback has returned, no later
\* step of that attempt (token response, ID-token validation, userinfo
\* response, verify dispatch, final outcome) changes the session: a pending
\* state another authorization request stored meanwhile is there, unchanged,
\* when the attempt ends.
C38_SessionUntouched ==
    [][\A a \in Attempts :
          (InFlight(a) /\ pc'[a] # pc[a]) => session' = session]_vars
C38_Witness ==
    \E a, b \in Attempts :
       /\ req[a].leg = "callback" /\ ctx[a].ok /\ pc[a] = "done" /\ calls[a].token = 1
       /\ req[b].leg = "authorize" /\ a < b
       /\ StateStored /\ PendingHandle # req[a].state

\* The step in which the token exchange / the userinfo request of attempt a
\* fails.
TokenErrorStep(a) == pc[a] = "token" /\ pc'[a] = "done" /\ ~tok'[a].checked
UserInfoErrorStep(a) ==
    pc[a] = "userinfo" /\ pc'[a] = "done" /\ calls'[a].verify = calls[a].verify
\* The step ends attempt a in one hard error and calls nothing.
EndsInError(a) ==
    /\ Len(out'[a]) = 1 /\ out'[a][1].kind = "error"
    /\ calls'[a] = calls[a]

\* C25: an attempt calls the token endpoint at most once and the userinfo
\* endpoint at most once; a failure of either call ends the attempt in one
\* hard error in the same step, and an attempt that has ended calls nothing
\* any more.
C25_NoRetry ==
    [][\A a \in Attempts :
          /\ calls'[a].token <= 1 /\ calls'[a].userinfo <= 1
          /\ TokenErrorStep(a) => EndsInError(a)
          /\ UserInfoErrorStep(a) => EndsInError(a)
          /\ pc[a] \in {"done", "thrown"} => calls'[a] = calls[a] /\ pc'[a] = pc[a]]_vars
C25_Witness ==
    \E a \in Attempts :
       /\ pc[a] = "done"
       /\ calls[a].token = 1 /\ calls[a].userinfo = 1 /\ calls[a].verify = 0
       /\ out[a][1].class = "InternalOAuthError"

\* A callback presenting handle on the session sess passes state verification.
Verifiable(sess, handle) == SessionStore_verify(hasSession, sess, SessionKey, handle).ok

\* C26: an authorization request issued while the state of an earlier one is
\* pending in the same session leaves that state in place: afterwards a
\* callback for the earlier handle passes state verification, and so does a
\* callback for the handle just generated.
C26_OnePerRequest ==
    [][\A a \in Attempts :
          (AuthorizationStep(a) /\ hasSession /\ StateStored /\ PkceSupported)
             => /\ Verifiable(session', PendingHandle)
                /\ \E i \in issued' \ issued : Verifiable(session', i.handle)]_vars

\* C28 as stated: on the callback leg the decision whether to query the
\* userinfo endpoint is made before the code is exchanged: whenever the
\* token endpoint has been called, the decision has been made.
C28_DecidedBeforeExchange ==
    \A a \in Attempts : calls[a].token > 0 => calls[a].decide > 0
\* C28, amended: the decision is made after the code has been exchanged and
\* the ID token has passed every check, and before the userinfo endpoint is
\* queried or the verify function is called.
C28_DecidedAfterValidation ==
    \A a \in Attempts :
       /\ calls[a].decide > 0
             => calls[a].token = 1 /\ tok[a].checked /\ tok[a].violated = {}
       /\ calls[a].userinfo + calls[a].verify > 0 => calls[a].decide = 1
C28_Witness ==
    \E a \in Attempts :
       /\ req[a].leg = "callback"
       /\ calls[a].token = 1 /\ calls[a].decide = 1 /\ calls[a].userinfo = 1

\* ------------------------------------------------------------------------
\* Properties of the handlers (checked under SpecHandler)

\* The handler given an input of this kind has run.
Handled(kind) == given.kind = kind /\ pc[1] = "done"

\* C18: a callback whose query carries error=access_denied ends in one soft
\* rejection, which carries the error_description; a callback whose query
\* carries another error code ends in one hard error, an AuthorizationError
\* built from the query's error_description, error and error_uri.
C18_ErrorResponse ==
    Handled("query") =>
       /\ Len(out[1]) = 1
       /\ LET o == out[1][1]
              query == given.query
          IN IF query.error = Str("access_denied")
             THEN o.kind = "fail" /\ o.message = query.error_description
             ELSE /\ o.kind = "error"
                  /\ o.class = "AuthorizationError"
                  /\ o.message = query.error_description
                  /\ o.data["code"] = query.error
                  /\ o.data["uri"] = query.error_uri
C18_Witness ==
    /\ Handled("query")
    /\ given.query.error = Str("server_error")
    /\ Truthy(given.query.error_uri)
    /\ out[1][1].class = "AuthorizationError"

\* C19: done(err, user, info) ends the attempt in one terminal call: a hard
\* error when err is truthy; otherwise a soft rejection carrying info when
\* user is falsy; otherwise success(user, info), where info (the empty object
\* when none was passed) has the application state of the authorization
\* request as its state when there is one and is left as it was passed when
\* there is none.
C19_Verified ==
    Handled("verdict") =>
       /\ Len(out[1]) = 1
       /\ LET o == out[1][1]
              verdict == given.verdict
              info == IF IsUndefined(verdict.info) THEN EmptyObj ELSE verdict.info
          IN IF IsErr(verdict.err)
             THEN o.kind = "error" /\ o.class = verdict.err.class
                    /\ o.message = Str(verdict.err.message)
             ELSE IF ~Truthy(verdict.user)
             THEN o.kind = "fail" /\ o.data = verdict.info
             ELSE /\ o.kind = "success"
                  /\ o.user = verdict.user
                  /\ DOMAIN o.data \ {"state"} = DOMAIN info \ {"state"}
                  /\ \A k \in DOMAIN info \ {"state"} : o.data[k] = info[k]
                  /\ IF Truthy(given.appState)
                     THEN Get(o.data, "state") = given.appState
                     ELSE /\ Has(o.data, "state") = Has(info, "state")
                          /\ Get(o.data, "state") = Get(info, "state")
C19_Witness ==
    /\ Handled("verdict")
    /\ Truthy(given.verdict.user)
    /\ Truthy(given.appState)
    /\ out[1][1].kind = "success"
    /\ Get(out[1][1].data, "state") = given.appState

\* The error of the token exchange carries a status code and a body.
Structured(err) == Truthy(err.statusCode) /\ Truthy(err.data)
\* What the attempt ends in when the error counts as an OAuth 2.0 error
\* document (isDocument) and when it does not.
TokenErrorOutcome(isDocument) ==
    /\ Len(out[1]) = 1
    /\ tok[1] = NoTok
    /\ calls[1].verify = 0 /\ calls[1].userinfo = 0
    /\ LET o == out[1][1]
           err == given.err
       IN /\ o.kind = "error"
          /\ IF isDocument
             THEN /\ o.class = "TokenError"
                  /\ o.message = err.doc.error_description
                  /\ o.data["code"] = err.doc.error
                  /\ o.data["uri"] = err.doc.error_uri
             ELSE /\ o.class = "InternalOAuthError"
                  /\ o.data["oauthError"] = err

\* C20 as stated: a failed token exchange ends in a TokenError built from
\* error_description, error and error_uri when the error carries a status
\* code and a body that parses as JSON with an error member, and in an
\* InternalOAuthError wrapping the cause in every other case; the ID token
\* is not validated in either case.
C20_TokenErrorMember ==
    Handled("tokenErr") =>
       TokenErrorOutcome(/\ Structured(given.err)
                         /\ given.err.doc.t = "object"
                         /\ ~IsUndefined(given.err.doc.error))
\* C20, amended: as above, with a truthy (non-empty) error member.
C20_TokenErrorTruthy ==
    Handled("tokenErr") =>
       TokenErrorOutcome(/\ Structured(given.err)
                         /\ given.err.doc.t = "object"
                         /\ Truthy(given.err.doc.error))
C20_Witness ==
    /\ Handled("tokenErr")
    /\ Structured(given.err)
    /\ given.err.doc.t = "object"
    /\ given.err.doc.error = Str("invalid_grant")
    /\ out[1][1].class = "TokenError"

\* The handler given an input of this kind has run, whatever it ended in.
Ran(kind) == given.kind = kind /\ pc[1] # "new"

\* C21: when PKCE is enabled and the context the state store restored holds
\* no verifier, the callback ends in one hard error raised locally and the
\* token endpoint is not called.
C21_NoVerifier ==
    /\ Ran("restored")
    /\ Truthy(cfg.pkce)
    /\ ~IsErr(given.v.err) /\ given.v.ok
    /\ ~Truthy(Get(given.v.ctx, "verifier"))
    => /\ pc[1] = "done"
       /\ Len(out[1]) = 1
       /\ out[1][1].kind = "error"
       /\ out[1][1].class = "Error"
       /\ out[1][1].message =
            Str("PKCE flag is defined but verifier string is not found in session ctx")
       /\ calls[1].token = 0
C21_Witness ==
    /\ Ran("restored")
    /\ cfg.pkce = Str("S256")
    /\ given.v.ok
    /\ ~Has(given.v.ctx, "verifier")
    /\ out[1] # <<>>
    /\ calls[1].token = 0

\* ------------------------------------------------------------------------
\* Properties of the functions (checked under SpecFn)

\* The function given an input of this kind has been applied.
Applied(kind) == given.kind = kind /\ returned.done

\* The scope the rule is applied to, and its scope values when it is a
\* string or an array.
GivenScope == IF Truthy(given.options) THEN given.options ELSE given.configured
GivenScopeValues ==
    IF TypeOf(GivenScope) = "string" THEN split(GivenScope.v) ELSE GivenScope.v
\* The number of times openid occurs among scope values.
Occurrences(words) == Cardinality({i \in 1..Len(words) : words[i] = OpenId})
OpenIdProfile == Chars(<<"openid", " ", "profile">>)
OpenIdProfileEmail == Chars(<<"openid", " ", "profile", " ", "email">>)

\* C23: the scope parameter holds the given scope values in their order,
\* with openid put in front exactly when it is not among them, so that
\* openid never occurs more often than it did (and once when it did not
\* occur); the scopes 'openid profile', ['openid','profile'] and ['profile']
\* give 'openid profile', ['profile','email'] and 'profile email' give
\* 'openid profile email', no scope gives 'openid'; the rule applied to its
\* own result gives the same result.
C23_ScopeOpenId ==
    Applied("scope") =>
       /\ IF ~Truthy(GivenScope) THEN returned.value = Chars(OpenId)
          ELSE LET sent == split(returned.value.v)
               IN /\ sent = IF Occurrences(GivenScopeValues) = 0
                            THEN <<OpenId>> \o GivenScopeValues ELSE GivenScopeValues
                  /\ Occurrences(sent) = IF Occurrences(GivenScopeValues) = 0
                                         THEN 1 ELSE Occurrences(GivenScopeValues)
       /\ GivenScope \in { OpenIdProfile, Arr(<<OpenId, <<"profile">>>>), Arr(<<<<"profile">>>>) }
             => returned.value = OpenIdProfile
       /\ GivenScope \in { Arr(<<<<"profile">>, <<"email">>>>),
                           Chars(<<"profile", " ", "email">>) }
             => returned.value = OpenIdProfileEmail
       /\ BuildScope(returned.value, Undef) = returned.value
C23_Witness ==
    /\ Applied("scope")
    /\ given.configured = Arr(<<<<"profile">>>>)
    /\ returned.value = OpenIdProfile

\* The verify function of the given parameter count is called with separate
\* userinfo and ID-token profiles.
TakesSeparateProfiles ==
    includes(VerifyArgs(given.passReq, given.arity), "uiProfile")

\* C24: with skipUserProfile not configured the decision is made from the
\* parameter count of the verify function alone, without error: the
\* userinfo endpoint is queried exactly from nine parameters on when the
\* request is not passed and from ten on when it is, so that every verify
\* function called with separate userinfo and ID-token profiles has the
\* userinfo endpoint queried; userinfo data reaches a verify function only
\* through that query.
C24_DefaultByArity ==
    Applied("arity") =>
       /\ ~IsErr(returned.value.err)
       /\ returned.value.load
             <=> given.arity >= (IF Truthy(given.passReq) THEN 10 ELSE 9)
       /\ TakesSeparateProfiles => returned.value.load
C24_Witness ==
    /\ Applied("arity")
    /\ Truthy(given.passReq) /\ given.arity = 10
    /\ TakesSeparateProfiles
    /\ returned.value.load

\* The parameter counts the verify function is supported with when the
\* request is not passed, and the arguments stated for each of them.
SupportedArities == {3, 4, 5, 7, 8, 9}
StatedArgs(n) ==
    IF n = 9
    THEN <<"iss", "uiProfile", "idProfile", "context", "idToken",
           "accessToken", "refreshToken", "params", "verified">>
    ELSE <<"iss", "profile">>
            \o (IF n >= 4 THEN <<"context">> ELSE <<>>)
            \o (IF n >= 5 THEN <<"idToken">> ELSE <<>>)
            \o (IF n >= 7 THEN <<"accessToken", "refreshToken">> ELSE <<>>)
            \o (IF n >= 8 THEN <<"params">> ELSE <<>>)
            \o <<"verified">>

\* C29: a verify function of a supported parameter count is called with the
\* arguments stated for that count, with the request prepended (and the
\* count one higher) when passReqToCallback is set; it is passed as many
\* arguments as it declares, and the completion callback is the last one.
C29_VerifyArguments ==
    Applied("verify") =>
       LET withReq == Truthy(given.passReq)
           n == IF withReq THEN given.arity - 1 ELSE given.arity
           args == returned.value
       IN n \in SupportedArities =>
             /\ args = (IF withReq THEN <<"req">> ELSE <<>>) \o StatedArgs(n)
             /\ Len(args) = given.arity
             /\ args[Len(args)] = "verified"
C29_Witness ==
    /\ Applied("verify")
    /\ Truthy(given.passReq) /\ given.arity = 8
    /\ returned.value = <<"req", "iss", "profile", "context", "idToken",
                          "accessToken", "refreshToken", "verified">>

\* The token response of the given callback has been handled.
Accepted == given.kind = "accepted" /\ pc[1] # "token"
\* The skip value a configured skipUserProfile results in.
SkipValue ==
    IF TypeOf(cfg.skipUserProfile) = "function"
    THEN cfg.skipUserProfile.skip ELSE cfg.skipUserProfile
\* skipUserProfile is a predicate of three parameters that reports an error.
PredicateFailed ==
    /\ TypeOf(cfg.skipUserProfile) = "function"
    /\ cfg.skipUserProfile.length = 3
    /\ IsErr(cfg.skipUserProfile.err)

\* C30: with skipUserProfile a boolean, a predicate of two parameters or a
\* predicate of three parameters (asynchronous), a valid token response is
\* followed by a userinfo request exactly when the skip value is falsy, and
\* by the call of the verify function otherwise; an error reported by the
\* asynchronous predicate ends the attempt in a hard error carrying it, with
\* no userinfo request and no call of the verify function.
C30_SkipUserProfile ==
    Accepted =>
       IF PredicateFailed
       THEN /\ pc[1] = "done"
            /\ out[1] = <<ErrorOutcome(cfg.skipUserProfile.err)>>
            /\ calls[1].userinfo = 0 /\ calls[1].verify = 0
       ELSE /\ calls[1].userinfo = 1 <=> ~Truthy(SkipValue)
            /\ calls[1].userinfo = 0 <=> calls[1].verify = 1
            /\ calls[1].userinfo = 1 => pc[1] = "userinfo" /\ out[1] = <<>>
C30_Witness ==
    /\ Accepted /\ PredicateFailed
    /\ out[1] = <<ErrorOutcome(Err("Error", "predicate failed"))>>
    /\ calls[1].userinfo = 0 /\ calls[1].verify = 0

\* C35: no authenticate call changes the configuration of the strategy
\* (issuer, client ID, PKCE mode, nonce mode, max_age, scope,
\* skipUserProfile); a scope configured as an array holds the same entries
\* after every call.
C35_ConfigImmutable == [][cfg' = cfg]_vars

\* The given request has been handled by authenticate().
Requested == given.kind = "request" /\ pc[1] # "new"
\* It was settled as an error response: one soft rejection or hard error,
\* the session as it was, the state store not called, no token request.
SettledAsError ==
    /\ pc[1] = "done"
    /\ Len(out[1]) = 1 /\ out[1][1].kind \in {"fail", "error"}
    /\ out[1][1].message = given.query.error_description
    /\ session = given.session
    /\ ctx[1] = NoCtx /\ nextUid = given.nextUid
    /\ calls[1] = NoCalls

\* C39 as stated: a request whose query carries an error parameter is
\* settled as an error response before anything else, also when the query
\* carries a code and a state: the pending state is neither consumed nor
\* changed, the state store is not called, the token endpoint is not called.
C39_ErrorParameter ==
    (Requested /\ ~IsUndefined(given.query.error)) => SettledAsError
\* C39, amended: the same for a query whose error parameter is not empty.
C39_ErrorTruthy ==
    (Requested /\ Truthy(given.query.error)) => SettledAsError
C39_Witness ==
    /\ Requested /\ SettledAsError
    /\ given.query.error = Str("server_error")
    /\ Truthy(given.query.code) /\ given.query.state = PendingHandle
    /\ StateStored

====
